---- MODULE Spec2Model ----
(***************************************************************************)
(* metaTutor: the adaptive tutoring agent.                                 *)
(*                                                                         *)
(* The session record (core/state.py AgentState) is the variable `state`,  *)
(* a record with one field per key.  Every node is an operator from the    *)
(* record and the node's external inputs (LLM response, console answer) to *)
(* the partial-update dict the node returns; the drivers merge the dict    *)
(* into the record (Merge), as the workflow engine and main.py do.         *)
(*                                                                         *)
(* Numbers in [0,1] are fixed point, in thousandths (0.8 is 800).          *)
(* Strings the claims do not look into are abstracted to short tags.       *)
(***************************************************************************)
EXTENDS Integers, Sequences, FiniteSets, TLC

VARIABLES
    state,          \* the AgentState dict threaded through the nodes
    pc,             \* the node (or loop position) that runs next
    tracker,        \* effectiveness_tracker.session_history (module global)
    last_practice   \* what the practice node last generated and read from the console

vars == <<state, pc, tracker, last_practice>>

----------------------------------------------------------------------------
(* Bounds of the model *)

\* largest max_attempts a run is started with
MaxAttemptsBound == 2
\* cap on len(decision_log): a run that would log more is cut off
MaxLog == 16
\* caps on len(sessions) and len(decision_log) in the free node-sequence
\* specification
MaxSessions == 3
MaxNodeLog == 2
\* cap on the number of selector invocations in the selector-only specification
MaxSelectorCalls == 11
\* cap on the number of effectiveness updates in the update-only specification
MaxUpdates == 2

----------------------------------------------------------------------------
(* Program constants *)

MIN_DIAGNOSTIC_CONFIDENCE == 800
\* a diagnostic that allows one question more
MAX_DIAGNOSTIC_QUESTIONS_one_more == 5 + 1
MAX_DIAGNOSTIC_QUESTIONS == 5
\* a diagnostic whose confidence grows by 0.2 per question
CONFIDENCE_INCREMENT_doubled == 100 * 2

CONFIDENCE_INCREMENT == 100
\* strategy_selector_node passes max_attempts=2 to get_viable_strategies
STRATEGY_MAX_ATTEMPTS == 2

StrategyNames ==
    <<"direct_explanation", "socratic", "worked_example", "analogy", "visual">>

ValidStrategies == {StrategyNames[i] : i \in 1..Len(StrategyNames)}

ValidActions ==
    {"continue", "end_success", "end_max_attempts", "end_stuck", "prerequisite"}

----------------------------------------------------------------------------
(* Helpers *)

Min(a, b) == IF a <= b THEN a ELSE b
Max(a, b) == IF a >= b THEN a ELSE b

\* dict.update / the engine's whole-field merge of a node's partial update
Merge(st, upd) ==
    [k \in DOMAIN st |-> IF k \in DOMAIN upd THEN upd[k] ELSE st[k]]

\* the empty dict {}
EmptyUpdate == [k \in {} |-> 0]

\* dict.get(key, 0) on strategy_attempts
GetAttempts(attempts, name) ==
    IF name \in DOMAIN attempts THEN attempts[name] ELSE 0

----------------------------------------------------------------------------
(* core/state.py and the driver's set-up *)

get_default_strategies ==
    [i \in 1..Len(StrategyNames) |->
        [name |-> StrategyNames[i], effectiveness |-> 700]]

\* create_initial_state(topic).  The four diagnostic keys are absent from the
\* factory dict and read with .get defaults; they are held here at those defaults.
create_initial_state(topic) ==
    [ topic |-> topic,
      target_proficiency |-> 800,
      current_proficiency |-> 0,
      diagnostic_confidence |-> 0,
      diagnostic_questions |-> <<>>,
      diagnostic_answers |-> <<>>,
      estimated_level |-> 200,
      available_strategies |-> <<>>,
      strategy_attempts |-> [n \in {} |-> 0],
      current_strategy |-> "",
      current_explanation |-> "",
      current_teaching_data |-> [shape |-> "empty", typed |-> TRUE],
      current_question |-> "",
      current_correct_answer |-> "",
      current_user_answer |-> "",
      current_question_difficulty |-> 500,
      sessions |-> <<>>,
      consecutive_failures |-> 0,
      stuck_counter |-> 0,
      needs_prerequisite |-> FALSE,
      prerequisite_topic |-> "",
      decision_log |-> <<>>,
      next_action |-> "diagnose",
      goal_achieved |-> FALSE,
      max_attempts |-> 10,
      current_attempt |-> 0 ]

\* the drivers' set-up (main, create_mock_state): the factory state with the
\* strategy catalog installed and every attempt count at 0
create_mock_state(topic) ==
    [create_initial_state(topic) EXCEPT
        !.available_strategies = get_default_strategies,
        !.strategy_attempts = [n \in ValidStrategies |-> 0]]

NoPractice == [question |-> "", difficulty |-> 0, answer |-> "", asked |-> FALSE]

----------------------------------------------------------------------------
(* agents/diagnostic.py *)

\* the adjustment without its final cap
calculate_level_adjustment_uncapped(answer_quality, expected_level, current_estimated_level) ==
    LET base ==
            IF answer_quality >= 800 THEN 150
            ELSE IF answer_quality >= 600 THEN 80
            ELSE IF answer_quality >= 400
                 THEN (IF expected_level > current_estimated_level THEN -50 ELSE 20)
            ELSE IF answer_quality >= 200 THEN -100
            ELSE -200
        level_difference == expected_level - current_estimated_level
    IN  IF level_difference > 200
        THEN (IF answer_quality > 600 THEN (base * 3) \div 2 ELSE base \div 2)
        ELSE IF level_difference < -200
        THEN (IF answer_quality < 400 THEN (base * 3) \div 2 ELSE base \div 2)
        ELSE base

\* an adjustment whose boost for a harder question starts at quality 0.6
\* instead of above it
calculate_level_adjustment_boost_from_600(answer_quality, expected_level, current_estimated_level) ==
    LET base ==
            IF answer_quality >= 800 THEN 150
            ELSE IF answer_quality >= 600 THEN 80
            ELSE IF answer_quality >= 400
                 THEN (IF expected_level > current_estimated_level THEN -50 ELSE 20)
            ELSE IF answer_quality >= 200 THEN -100
            ELSE -200
        level_difference == expected_level - current_estimated_level
        scaled ==
            IF level_difference > 200
            THEN (IF answer_quality >= 600 THEN (base * 3) \div 2 ELSE base \div 2)
            ELSE IF level_difference < -200
            THEN (IF answer_quality < 400 THEN (base * 3) \div 2 ELSE base \div 2)
            ELSE base
    IN  Max(-250, Min(250, scaled))

calculate_level_adjustment(answer_quality, expected_level, current_estimated_level) ==
    LET base ==
            IF answer_quality >= 800 THEN 150
            ELSE IF answer_quality >= 600 THEN 80
            ELSE IF answer_quality >= 400
                 THEN (IF expected_level > current_estimated_level THEN -50 ELSE 20)
            ELSE IF answer_quality >= 200 THEN -100
            ELSE -200
        level_difference == expected_level - current_estimated_level
        scaled ==
            IF level_difference > 200
            THEN (IF answer_quality > 600 THEN (base * 3) \div 2 ELSE base \div 2)
            ELSE IF level_difference < -200
            THEN (IF answer_quality < 400 THEN (base * 3) \div 2 ELSE base \div 2)
            ELSE base
    IN  Max(-250, Min(250, scaled))

\* DiagnosticQuestionParser.parse and the fallbacks of adaptive_diagnostic_node:
\* a response that is no valid DiagnosticQuestion (or an exception of the call)
\* gives the synthetic question with expected_level = estimated_level.
DiagnosticQuestionOf(qresp, estimated_level) ==
    IF qresp.ok
    THEN [question |-> "llm_question", expected_level |-> qresp.expected_level]
    ELSE [question |-> "fallback_question", expected_level |-> estimated_level]

\* evaluate_answer_quality: the neutral 0.5 on a parse failure or an exception,
\* else the quality_score of the response (AnswerEvaluation checks no range).
evaluate_answer_quality(gresp) ==
    IF gresp.ok THEN gresp.quality_score ELSE 500


\* an adaptive_diagnostic_node that records the question but not the answer
adaptive_diagnostic_node_losing_answer(st, qresp, user_answer, gresp) ==
    LET confidence == st.diagnostic_confidence
        estimated_level == st.estimated_level
        q == DiagnosticQuestionOf(qresp, estimated_level)
        quality == evaluate_answer_quality(gresp)
        level_adjustment ==
            calculate_level_adjustment(quality, q.expected_level, estimated_level)
    IN  IF confidence >= MIN_DIAGNOSTIC_CONFIDENCE
        THEN [decision_log |-> Append(st.decision_log, "diagnostic_done")]
        ELSE IF Len(st.diagnostic_questions) >= MAX_DIAGNOSTIC_QUESTIONS
        THEN [diagnostic_confidence |-> MIN_DIAGNOSTIC_CONFIDENCE,
              decision_log |-> Append(st.decision_log, "diagnostic_forced")]
        ELSE [diagnostic_questions |-> Append(st.diagnostic_questions, q.question),
              diagnostic_confidence |-> Min(1000, confidence + CONFIDENCE_INCREMENT),
              estimated_level |-> Max(0, Min(1000, estimated_level + level_adjustment)),
              decision_log |-> Append(st.decision_log, "diagnostic_question")]

\* an adaptive_diagnostic_node without the branch that stops at the question cap
adaptive_diagnostic_node_asking_on(st, qresp, user_answer, gresp) ==
    LET confidence == st.diagnostic_confidence
        estimated_level == st.estimated_level
        q == DiagnosticQuestionOf(qresp, estimated_level)
        quality == evaluate_answer_quality(gresp)
        level_adjustment ==
            calculate_level_adjustment(quality, q.expected_level, estimated_level)
    IN  IF confidence >= MIN_DIAGNOSTIC_CONFIDENCE
        THEN [decision_log |-> Append(st.decision_log, "diagnostic_done")]
        ELSE [diagnostic_questions |-> Append(st.diagnostic_questions, q.question),
              diagnostic_answers |-> Append(st.diagnostic_answers, user_answer),
              diagnostic_confidence |-> Min(1000, confidence + CONFIDENCE_INCREMENT),
              estimated_level |-> Max(0, Min(1000, estimated_level + level_adjustment)),
              decision_log |-> Append(st.decision_log, "diagnostic_question")]

adaptive_diagnostic_node(st, qresp, user_answer, gresp) ==
    LET confidence == st.diagnostic_confidence
        questions == st.diagnostic_questions
        answers == st.diagnostic_answers
        estimated_level == st.estimated_level
        num_questions == Len(questions)
        q == DiagnosticQuestionOf(qresp, estimated_level)
        quality == evaluate_answer_quality(gresp)
        level_adjustment ==
            calculate_level_adjustment(quality, q.expected_level, estimated_level)
    IN  IF confidence >= MIN_DIAGNOSTIC_CONFIDENCE
        THEN [decision_log |-> Append(st.decision_log, "diagnostic_done")]
        ELSE IF num_questions >= MAX_DIAGNOSTIC_QUESTIONS
        THEN [diagnostic_confidence |-> MIN_DIAGNOSTIC_CONFIDENCE,
              decision_log |-> Append(st.decision_log, "diagnostic_forced")]
        ELSE [diagnostic_questions |-> Append(questions, q.question),
              diagnostic_answers |-> Append(answers, user_answer),
              diagnostic_confidence |-> Min(1000, confidence + CONFIDENCE_INCREMENT),
              estimated_level |-> Max(0, Min(1000, estimated_level + level_adjustment)),
              decision_log |-> Append(st.decision_log, "diagnostic_question")]

----------------------------------------------------------------------------
(* core/graph.py *)

\* the guard of the while loop of diagnostic_phase_node
DiagnosticLoopGuard(st) ==
    /\ st.diagnostic_confidence < MIN_DIAGNOSTIC_CONFIDENCE
    /\ Len(st.diagnostic_questions) < MAX_DIAGNOSTIC_QUESTIONS

\* the early return of diagnostic_phase_node (diagnostic already complete)
diagnostic_phase_early_return(st) ==
    [current_proficiency |-> st.estimated_level,
     decision_log |-> Append(st.decision_log, "diagnostic_phase_complete")]


\* a diagnostic_phase_node whose return leaves out the estimate and the lists
diagnostic_phase_return_proficiency_only(st) ==
    [diagnostic_confidence |-> st.diagnostic_confidence,
     current_proficiency |-> st.estimated_level,
     decision_log |-> Append(st.decision_log, "diagnostic_complete")]

\* the return of diagnostic_phase_node after its loop
diagnostic_phase_return(st) ==
    [diagnostic_confidence |-> st.diagnostic_confidence,
     diagnostic_questions |-> st.diagnostic_questions,
     diagnostic_answers |-> st.diagnostic_answers,
     estimated_level |-> st.estimated_level,
     current_proficiency |-> st.estimated_level,
     decision_log |-> Append(st.decision_log, "diagnostic_complete")]

\* route_decision without the max-attempts check
route_decision_without_attempt_check(st) ==
    IF st.goal_achieved THEN "end"
    ELSE IF st.next_action = "continue" /\ ~st.goal_achieved THEN "strategy_selector"
    ELSE "end"

\* route_decision that loops back to teach after a "prerequisite" decision
route_decision_teaching_prerequisite(st) ==
    IF st.current_attempt >= st.max_attempts THEN "end"
    ELSE IF st.goal_achieved THEN "end"
    ELSE IF st.next_action \in {"continue", "prerequisite"} THEN "strategy_selector"
    ELSE "end"

\* route_decision that loops on "continue" even when the goal is achieved
route_decision_ignoring_goal(st) ==
    IF st.current_attempt >= st.max_attempts THEN "end"
    ELSE IF st.next_action = "continue" THEN "strategy_selector"
    ELSE "end"

route_decision(st) ==
    IF st.current_attempt >= st.max_attempts THEN "end"
    ELSE IF st.goal_achieved THEN "end"
    ELSE IF st.next_action = "continue" /\ ~st.goal_achieved THEN "strategy_selector"
    ELSE "end"

----------------------------------------------------------------------------
(* agents/strategies.py *)

\* the moving average without the clamp to [0,1]
update_strategy_effectiveness_unclamped(strategies, strategy_name, score) ==
    [i \in 1..Len(strategies) |->
        IF strategies[i].name = strategy_name
        THEN [strategies[i] EXCEPT
                 !.effectiveness = (strategies[i].effectiveness * 7 + score * 3) \div 10]
        ELSE strategies[i]]

update_strategy_effectiveness(strategies, strategy_name, score) ==
    [i \in 1..Len(strategies) |->
        IF strategies[i].name = strategy_name
        THEN [strategies[i] EXCEPT
                 !.effectiveness =
                     Max(0, Min(1000, (strategies[i].effectiveness * 7 + score * 3) \div 10))]
        ELSE strategies[i]]

\* the filter alone, without the fall-back to the whole catalog
get_viable_strategies_filter_only(strategies, strategy_attempts, max_attempts) ==
    LET NotOverTried(s) == GetAttempts(strategy_attempts, s.name) < max_attempts
    IN  SelectSeq(strategies, NotOverTried)

get_viable_strategies(strategies, strategy_attempts, max_attempts) ==
    LET NotOverTried(s) == GetAttempts(strategy_attempts, s.name) < max_attempts
        viable == SelectSeq(strategies, NotOverTried)
    IN  IF viable = <<>> THEN strategies ELSE viable


\* a descending sort that puts a later entry before the earlier entries of
\* equal effectiveness
RECURSIVE RankPrefix_ties_reversed(_, _)
RankPrefix_ties_reversed(strategies, n) ==
    IF n = 0 THEN <<>>
    ELSE LET r == RankPrefix_ties_reversed(strategies, n - 1)
             s == strategies[n]
             k == Cardinality({i \in 1..Len(r) : r[i].effectiveness > s.effectiveness})
         IN  SubSeq(r, 1, k) \o <<s>> \o SubSeq(r, k + 1, Len(r))

rank_strategies_ties_reversed(strategies, recent_sessions) ==
    RankPrefix_ties_reversed(strategies, Len(strategies))

\* sorted(strategies, key=effectiveness, reverse=True): a stable descending sort,
\* built by inserting each entry behind the entries that are at least as effective
RECURSIVE RankPrefix(_, _)
RankPrefix(strategies, n) ==
    IF n = 0 THEN <<>>
    ELSE LET r == RankPrefix(strategies, n - 1)
             s == strategies[n]
             k == Cardinality({i \in 1..Len(r) : r[i].effectiveness >= s.effectiveness})
         IN  SubSeq(r, 1, k) \o <<s>> \o SubSeq(r, k + 1, Len(r))

rank_strategies(strategies, recent_sessions) ==
    RankPrefix(strategies, Len(strategies))

\* StrategyEffectivenessTracker.record_session, the history it appends to
record_session(history, strategy_name, score, user_level) ==
    Append(history,
           [strategy |-> strategy_name, score |-> score, user_level |-> user_level])

----------------------------------------------------------------------------
(* agents/strategy_selector.py *)

\* parse_strategy_selection succeeds: a decodable, well-typed object naming one
\* of the five catalog strategies
SelectionParses(resp) ==
    resp.ok /\ resp.chosen_strategy \in ValidStrategies

\* a selector that takes the LLM's choice without validating it against the
\* viable set
strategy_selector_node_unvalidated(st, resp) ==
    LET available_strategies == st.available_strategies
        strategy_attempts == st.strategy_attempts
        viable_strategies ==
            get_viable_strategies(available_strategies, strategy_attempts,
                                  STRATEGY_MAX_ATTEMPTS)
        ranked_strategies == rank_strategies(viable_strategies, st.sessions)
        chosen_strategy ==
            IF SelectionParses(resp) THEN resp.chosen_strategy
            ELSE ranked_strategies[1].name
        new_attempts ==
            [n \in DOMAIN strategy_attempts \cup {chosen_strategy} |->
                IF n = chosen_strategy
                THEN GetAttempts(strategy_attempts, n) + 1
                ELSE strategy_attempts[n]]
    IN  IF viable_strategies = <<>>
        THEN [strategy_attempts |->
                  [n \in {available_strategies[i].name :
                             i \in 1..Len(available_strategies)} |-> 0],
              decision_log |-> Append(st.decision_log, "strategy_reset")]
        ELSE [current_strategy |-> chosen_strategy,
              strategy_attempts |-> new_attempts,
              decision_log |-> Append(st.decision_log, "strategy_selector")]

strategy_selector_node(st, resp) ==
    LET available_strategies == st.available_strategies
        strategy_attempts == st.strategy_attempts
        viable_strategies ==
            get_viable_strategies(available_strategies, strategy_attempts,
                                  STRATEGY_MAX_ATTEMPTS)
        ranked_strategies == rank_strategies(viable_strategies, st.sessions)
        llm_choice ==
            IF SelectionParses(resp) THEN resp.chosen_strategy
            ELSE ranked_strategies[1].name
        valid_strategy_names ==
            {viable_strategies[i].name : i \in 1..Len(viable_strategies)}
        chosen_strategy ==
            IF llm_choice \in valid_strategy_names THEN llm_choice
            ELSE ranked_strategies[1].name
        new_attempts ==
            [n \in DOMAIN strategy_attempts \cup {chosen_strategy} |->
                IF n = chosen_strategy
                THEN GetAttempts(strategy_attempts, n) + 1
                ELSE strategy_attempts[n]]
    IN  IF viable_strategies = <<>>
        THEN [strategy_attempts |->
                  [n \in {available_strategies[i].name :
                             i \in 1..Len(available_strategies)} |-> 0],
              decision_log |-> Append(st.decision_log, "strategy_reset")]
        ELSE [current_strategy |-> chosen_strategy,
              strategy_attempts |-> new_attempts,
              decision_log |-> Append(st.decision_log, "strategy_selector")]

----------------------------------------------------------------------------
(* agents/teach_node.py *)

\* The teaching content a response carries.  kind "ok": an object of the
\* strategy's schema with string fields and lists of strings; "malformed":
\* undecodable, or a required field missing or mistyped (parse_teaching_response
\* raises ParseError); "bad_elems": an object that passes the schema checks
\* but whose text fields and list elements are numbers.
\* shape is the schema the dict follows, typed whether its texts are strings.
TeachingFallback == [shape |-> "fallback", typed |-> TRUE]

\* try parse_teaching_response / except safe_parse(...): the parsed content, or
\* _get_fallback_data("parse_teaching_response") = {"error": "Unknown parser"}
ParsedTeachingData(resp, strategy) ==
    IF resp = "malformed" \/ strategy \notin ValidStrategies
    THEN TeachingFallback
    ELSE [shape |-> strategy, typed |-> (resp = "ok")]

\* _extract_explanation raises TypeError: '; '.join over non-strings (socratic),
\* or a slice [:100] of a number (worked_example, analogy, visual)
TeachExtractRaises(strategy, teaching_data) ==
    /\ ~teaching_data.typed
    /\ teaching_data.shape = strategy
    /\ strategy \in {"socratic", "worked_example", "analogy", "visual"}

TeachRaises(st, resp) ==
    TeachExtractRaises(st.current_strategy,
                       ParsedTeachingData(resp, st.current_strategy))

_extract_explanation(strategy, teaching_data) ==
    IF teaching_data.shape = strategy
    THEN (IF teaching_data.typed THEN "explanation" ELSE "not_a_string")
    ELSE "default_explanation"

teach_node(st, resp) ==
    LET strategy == st.current_strategy
        teaching_data == ParsedTeachingData(resp, strategy)
    IN  [current_explanation |-> _extract_explanation(strategy, teaching_data),
         current_teaching_data |-> teaching_data,
         decision_log |-> Append(st.decision_log, "teach")]

----------------------------------------------------------------------------
(* agents/practice_node.py *)

\* _create_teaching_summary raises TypeError on content of the active
\* strategy's shape whose texts are numbers (a slice [:200] or a ', '.join)
PracticeRaises(st) ==
    /\ ~st.current_teaching_data.typed
    /\ st.current_teaching_data.shape = st.current_strategy

\* try parse_practice_question / except safe_parse: the parsed question or the
\* fixed fallback question
PracticeDataOf(qresp) ==
    IF qresp.ok
    THEN [question |-> qresp.question, expected_answer |-> "expected",
          difficulty |-> qresp.difficulty]
    ELSE [question |-> "fallback_practice_question",
          expected_answer |-> "fallback_expected", difficulty |-> 500]

\* a practice_node whose success leaves stuck_counter as it was
practice_node_stuck_kept(st, qresp, user_answer, gresp) ==
    LET strategy == st.current_strategy
        student_level == st.current_proficiency
        practice_data == PracticeDataOf(qresp)
        session_score == evaluate_answer_quality(gresp)
        session_record ==
            [session_id |-> Len(st.sessions) + 1,
             strategy |-> strategy,
             score |-> session_score,
             question |-> practice_data.question,
             user_answer |-> user_answer,
             node |-> "practice"]
        proficiency_gain == session_score \div 10
    IN  [current_question |-> practice_data.question,
         current_correct_answer |-> practice_data.expected_answer,
         sessions |-> Append(st.sessions, session_record),
         available_strategies |->
             update_strategy_effectiveness(st.available_strategies, strategy,
                                           session_score),
         current_proficiency |-> Min(1000, student_level + proficiency_gain),
         consecutive_failures |->
             IF session_score >= 600 THEN 0 ELSE st.consecutive_failures + 1,
         stuck_counter |->
             IF session_score >= 600 THEN st.stuck_counter ELSE st.stuck_counter + 1,
         decision_log |-> Append(st.decision_log, "practice")]

practice_node(st, qresp, user_answer, gresp) ==
    LET strategy == st.current_strategy
        student_level == st.current_proficiency
        practice_data == PracticeDataOf(qresp)
        session_score == evaluate_answer_quality(gresp)
        session_record ==
            [session_id |-> Len(st.sessions) + 1,
             strategy |-> strategy,
             score |-> session_score,
             question |-> practice_data.question,
             user_answer |-> user_answer,
             node |-> "practice"]
        proficiency_gain == session_score \div 10
    IN  [current_question |-> practice_data.question,
         current_correct_answer |-> practice_data.expected_answer,
         sessions |-> Append(st.sessions, session_record),
         available_strategies |->
             update_strategy_effectiveness(st.available_strategies, strategy,
                                           session_score),
         current_proficiency |-> Min(1000, student_level + proficiency_gain),
         consecutive_failures |->
             IF session_score >= 600 THEN 0 ELSE st.consecutive_failures + 1,
         stuck_counter |->
             IF session_score >= 600 THEN 0 ELSE st.stuck_counter + 1,
         decision_log |-> Append(st.decision_log, "practice")]

----------------------------------------------------------------------------
(* agents/evaluate_node.py *)

\* a gain measured from the middle of the scale: negative for a score below 0.5
_calculate_proficiency_gain_penalising(score, current_level, difficulty) ==
    LET base_gain == (score - 500) \div 10
        level_difference == difficulty - current_level
        adjusted ==
            IF level_difference > 200
            THEN (IF score >= 700 THEN (base_gain * 13) \div 10
                  ELSE IF score < 400 THEN (base_gain * 7) \div 10
                  ELSE base_gain)
            ELSE IF level_difference < -200
            THEN (IF score < 600 THEN (base_gain * 8) \div 10 ELSE base_gain)
            ELSE base_gain
    IN  Max(-150, Min(150, adjusted))

\* a gain of score * 0.2, with neither the difficulty adjustment nor the cap
_calculate_proficiency_gain_double_rate(score, current_level, difficulty) ==
    score \div 5

\* a gain whose bonus for a hard question starts above a score of 0.7
_calculate_proficiency_gain_bonus_above_700(score, current_level, difficulty) ==
    LET base_gain == score \div 10
        level_difference == difficulty - current_level
        adjusted ==
            IF level_difference > 200
            THEN (IF score > 700 THEN (base_gain * 13) \div 10
                  ELSE IF score < 400 THEN (base_gain * 7) \div 10
                  ELSE base_gain)
            ELSE IF level_difference < -200
            THEN (IF score < 600 THEN (base_gain * 8) \div 10 ELSE base_gain)
            ELSE base_gain
    IN  Max(-150, Min(150, adjusted))

_calculate_proficiency_gain(score, current_level, difficulty) ==
    LET base_gain == score \div 10
        level_difference == difficulty - current_level
        adjusted ==
            IF level_difference > 200
            THEN (IF score >= 700 THEN (base_gain * 13) \div 10
                  ELSE IF score < 400 THEN (base_gain * 7) \div 10
                  ELSE base_gain)
            ELSE IF level_difference < -200
            THEN (IF score < 600 THEN (base_gain * 8) \div 10 ELSE base_gain)
            ELSE base_gain
    IN  Max(-150, Min(150, adjusted))

\* try parse_answer_evaluation / except safe_parse: the validated quality_score
\* (a number in [0,1]) or the fallback 0.5
EvaluationScoreOf(resp) ==
    IF resp.ok /\ resp.quality_score >= 0 /\ resp.quality_score <= 1000
    THEN resp.quality_score
    ELSE 500

\* an evaluate_node that raises when the state holds no pending question
EvaluateRaises_on_missing_question(st) == st.current_question = ""

\* _extract_explanation_for_session raises only when it has to derive the text
\* from ill-typed content (no flattened explanation in the state)
EvaluateRaises(st) ==
    /\ st.current_question # ""
    /\ st.current_explanation = ""
    /\ ~st.current_teaching_data.typed
    /\ st.current_teaching_data.shape = st.current_strategy
    /\ st.current_strategy \in {"socratic", "worked_example"}

\* a session record that numbers from len(sessions) instead of len(sessions) + 1
evaluate_session_record_stale_id(st, resp) ==
    [session_id |-> Len(st.sessions),
     strategy |-> st.current_strategy,
     score |-> EvaluationScoreOf(resp),
     question |-> st.current_question,
     user_answer |-> st.current_user_answer,
     node |-> "evaluate"]

\* the session_record dict of evaluate_node
evaluate_session_record(st, resp) ==
    [session_id |-> Len(st.sessions) + 1,
     strategy |-> st.current_strategy,
     score |-> EvaluationScoreOf(resp),
     question |-> st.current_question,
     user_answer |-> st.current_user_answer,
     node |-> "evaluate"]

\* an evaluate_node that counts every graded session as a failure
evaluate_node_never_resets(st, resp) ==
    LET strategy == st.current_strategy
        student_level == st.current_proficiency
        session_score == EvaluationScoreOf(resp)
        proficiency_gain ==
            _calculate_proficiency_gain(session_score, student_level,
                                        st.current_question_difficulty)
    IN  IF st.current_question = ""
        THEN EmptyUpdate
        ELSE [sessions |-> Append(st.sessions, evaluate_session_record(st, resp)),
              available_strategies |->
                  update_strategy_effectiveness(st.available_strategies, strategy,
                                                session_score),
              current_proficiency |->
                  Min(1000, Max(0, student_level + proficiency_gain)),
              consecutive_failures |-> st.consecutive_failures + 1,
              stuck_counter |-> st.stuck_counter + 1,
              current_attempt |-> st.current_attempt + 1,
              decision_log |-> Append(st.decision_log, "evaluate")]

evaluate_node(st, resp) ==
    LET strategy == st.current_strategy
        student_level == st.current_proficiency
        question == st.current_question
        difficulty == st.current_question_difficulty
        session_score == EvaluationScoreOf(resp)
        proficiency_gain ==
            _calculate_proficiency_gain(session_score, student_level, difficulty)
        session_record == evaluate_session_record(st, resp)
        is_success == session_score >= 600
    IN  IF question = ""
        THEN EmptyUpdate
        ELSE [sessions |-> Append(st.sessions, session_record),
              available_strategies |->
                  update_strategy_effectiveness(st.available_strategies, strategy,
                                                session_score),
              current_proficiency |->
                  Min(1000, Max(0, student_level + proficiency_gain)),
              consecutive_failures |->
                  IF is_success THEN 0 ELSE st.consecutive_failures + 1,
              stuck_counter |-> IF is_success THEN 0 ELSE st.stuck_counter + 1,
              current_attempt |-> st.current_attempt + 1,
              decision_log |-> Append(st.decision_log, "evaluate")]

----------------------------------------------------------------------------
(* agents/meta_reasoner_node.py *)

\* the progress line printed before the guarded computation divides by the target
MetaReasonerRaises(st) == st.target_proficiency = 0

\* a parser that accepts any next_action of a well-formed response
MetaDecisionOf_unvalidated(resp) ==
    IF resp.ok
    THEN [next_action |-> resp.next_action,
          goal_achieved |-> resp.goal_achieved,
          needs_prerequisite |-> resp.needs_prerequisite,
          prerequisite_topic |-> resp.prerequisite_topic]
    ELSE [next_action |-> "continue", goal_achieved |-> FALSE,
          needs_prerequisite |-> FALSE, prerequisite_topic |-> ""]

\* try parse_meta_reasoner_decision / except safe_parse: the validated decision
\* or the fallback "continue" decision
MetaDecisionOf(resp) ==
    IF resp.ok /\ resp.next_action \in ValidActions
    THEN [next_action |-> resp.next_action,
          goal_achieved |-> resp.goal_achieved,
          needs_prerequisite |-> resp.needs_prerequisite,
          prerequisite_topic |-> resp.prerequisite_topic]
    ELSE [next_action |-> "continue", goal_achieved |-> FALSE,
          needs_prerequisite |-> FALSE, prerequisite_topic |-> ""]

\* a meta_reasoner_node that returns a fresh log holding only its own decision
meta_reasoner_node_fresh_log(st, resp) ==
    LET decision_data == MetaDecisionOf(resp)
    IN  [next_action |-> decision_data.next_action,
         goal_achieved |-> decision_data.goal_achieved,
         needs_prerequisite |-> decision_data.needs_prerequisite,
         prerequisite_topic |-> decision_data.prerequisite_topic,
         decision_log |-> <<"meta_reasoner">>]


\* a meta_reasoner_node that also clears the failure counters when continuing
meta_reasoner_node_resetting_counters(st, resp) ==
    LET decision_data == MetaDecisionOf(resp)
    IN  [next_action |-> decision_data.next_action,
         goal_achieved |-> decision_data.goal_achieved,
         needs_prerequisite |-> decision_data.needs_prerequisite,
         prerequisite_topic |-> decision_data.prerequisite_topic,
         consecutive_failures |-> 0,
         stuck_counter |-> 0,
         decision_log |-> Append(st.decision_log, "meta_reasoner")]

meta_reasoner_node(st, resp) ==
    LET decision_data == MetaDecisionOf(resp)
    IN  [next_action |-> decision_data.next_action,
         goal_achieved |-> decision_data.goal_achieved,
         needs_prerequisite |-> decision_data.needs_prerequisite,
         prerequisite_topic |-> decision_data.prerequisite_topic,
         decision_log |-> Append(st.decision_log, "meta_reasoner")]

----------------------------------------------------------------------------
(* agents/teaching_session.py *)

StrategyBonus(strategy) ==
    IF strategy = "socratic" THEN 100
    ELSE IF strategy = "worked_example" THEN 150
    ELSE IF strategy = "analogy" THEN 50
    ELSE IF strategy = "visual" THEN 100
    ELSE 0

_simulate_student_response(strategy, student_level, random_factor) ==
    Max(0, Min(1000, (student_level * 8) \div 10 + 200
                        + StrategyBonus(strategy) + random_factor))

\* its own _extract_explanation joins or slices only for two strategies
TeachingSessionRaises(st, resp) ==
    LET teaching_data == ParsedTeachingData(resp, st.current_strategy)
    IN  /\ ~teaching_data.typed
        /\ teaching_data.shape = st.current_strategy
        /\ st.current_strategy \in {"socratic", "worked_example"}

teaching_session_node(st, resp, random_factor) ==
    LET strategy == st.current_strategy
        student_level == st.current_proficiency
        session_score ==
            _simulate_student_response(strategy, student_level, random_factor)
        session_record ==
            [session_id |-> Len(st.sessions) + 1,
             strategy |-> strategy,
             score |-> session_score,
             question |-> "assessment_question",
             user_answer |-> "Simulated student response",
             node |-> "teaching_session"]
    IN  [sessions |-> Append(st.sessions, session_record),
         available_strategies |->
             update_strategy_effectiveness(st.available_strategies, strategy,
                                           session_score),
         current_proficiency |-> Min(1000, student_level + session_score \div 10),
         consecutive_failures |->
             IF session_score >= 600 THEN 0 ELSE st.consecutive_failures + 1,
         stuck_counter |->
             IF session_score >= 600 THEN 0 ELSE st.stuck_counter + 1]

----------------------------------------------------------------------------
(* External inputs: what the LLM may answer and the learner may type *)

\* diagnostic question responses: unusable, or a question with an expected level
DiagQuestionResponses ==
    {[ok |-> FALSE, expected_level |-> 0],
     [ok |-> TRUE, expected_level |-> 300],
     [ok |-> TRUE, expected_level |-> 900]}

\* answer evaluations as evaluate_answer_quality reads them
GradeResponses ==
    {[ok |-> FALSE, quality_score |-> 0],
     [ok |-> TRUE, quality_score |-> 100],
     [ok |-> TRUE, quality_score |-> 900]}

\* the single diagnostic exchange the workflow specification plays
GraphDiagQuestionResponses == {[ok |-> TRUE, expected_level |-> 300]}
GraphDiagGradeResponses == {[ok |-> FALSE, quality_score |-> 0]}

Answers == {"", "answer"}

SelectorResponses ==
    {[ok |-> FALSE, chosen_strategy |-> ""],
     [ok |-> TRUE, chosen_strategy |-> "socratic"],
     [ok |-> TRUE, chosen_strategy |-> "no_such_strategy"]}

TeachResponses == {"ok", "malformed", "bad_elems"}

PracticeResponses ==
    {[ok |-> FALSE, question |-> "", difficulty |-> 0],
     [ok |-> TRUE, question |-> "", difficulty |-> 900],
     [ok |-> TRUE, question |-> "practice_question", difficulty |-> 900]}

\* AnswerEvaluation checks no range: 1.5 is accepted as a quality_score
PracticeGradeResponses ==
    {[ok |-> FALSE, quality_score |-> 0],
     [ok |-> TRUE, quality_score |-> 900],
     [ok |-> TRUE, quality_score |-> 1500]}

EvaluateResponses ==
    {[ok |-> FALSE, quality_score |-> 0],
     [ok |-> TRUE, quality_score |-> 200],
     [ok |-> TRUE, quality_score |-> 600],
     [ok |-> TRUE, quality_score |-> 900],
     [ok |-> TRUE, quality_score |-> 1500]}

MetaDecision(action, goal, needs, prerequisite) ==
    [ok |-> TRUE, next_action |-> action, goal_achieved |-> goal,
     needs_prerequisite |-> needs, prerequisite_topic |-> prerequisite]

MetaResponses ==
    {[ok |-> FALSE, next_action |-> "", goal_achieved |-> FALSE,
      needs_prerequisite |-> FALSE, prerequisite_topic |-> ""],
     MetaDecision("continue", FALSE, FALSE, ""),
     MetaDecision("continue", TRUE, FALSE, ""),
     MetaDecision("end_success", TRUE, FALSE, ""),
     MetaDecision("end_max_attempts", FALSE, FALSE, ""),
     MetaDecision("end_stuck", FALSE, FALSE, ""),
     MetaDecision("prerequisite", FALSE, TRUE, "arrays"),
     MetaDecision("no_such_action", FALSE, FALSE, "")}

RandomFactors == {-100, 0, 100}

----------------------------------------------------------------------------
(* Steps: one node invocation, its update merged into the state *)

LogRoom == Len(state.decision_log) < MaxLog

Crash ==
    /\ pc' = "crashed"
    /\ UNCHANGED <<state, tracker, last_practice>>

DiagnosticStep(to, QResp, GResp) ==
    \E qresp \in QResp, user_answer \in {"answer"}, gresp \in GResp :
        /\ state' = Merge(state,
                          adaptive_diagnostic_node(state, qresp, user_answer, gresp))
        /\ pc' = to
        /\ UNCHANGED <<tracker, last_practice>>

SelectorStep(to) ==
    \E resp \in SelectorResponses :
        /\ state' = Merge(state, strategy_selector_node(state, resp))
        /\ pc' = to
        /\ UNCHANGED <<tracker, last_practice>>

TeachStep(to) ==
    \E resp \in TeachResponses :
        IF TeachRaises(state, resp)
        THEN Crash
        ELSE /\ state' = Merge(state, teach_node(state, resp))
             /\ pc' = to
             /\ UNCHANGED <<tracker, last_practice>>

PracticeStep(to) ==
    \E qresp \in PracticeResponses, user_answer \in Answers,
       gresp \in PracticeGradeResponses :
        IF PracticeRaises(state)
        THEN Crash
        ELSE /\ state' = Merge(state,
                               practice_node(state, qresp, user_answer, gresp))
             /\ tracker' = record_session(tracker, state.current_strategy,
                                          evaluate_answer_quality(gresp),
                                          state.current_proficiency)
             /\ last_practice' = [question |-> PracticeDataOf(qresp).question,
                                  difficulty |-> PracticeDataOf(qresp).difficulty,
                                  answer |-> user_answer,
                                  asked |-> TRUE]
             /\ pc' = to

EvaluateStep(to) ==
    \E resp \in EvaluateResponses :
        IF EvaluateRaises(state)
        THEN Crash
        ELSE /\ state' = Merge(state, evaluate_node(state, resp))
             /\ tracker' = IF state.current_question = "" THEN tracker
                           ELSE record_session(tracker, state.current_strategy,
                                               EvaluationScoreOf(resp),
                                               state.current_proficiency)
             /\ pc' = to
             /\ UNCHANGED last_practice

MetaReasonerStep(to) ==
    \E resp \in MetaResponses :
        IF MetaReasonerRaises(state)
        THEN Crash
        ELSE /\ state' = Merge(state, meta_reasoner_node(state, resp))
             /\ pc' = to
             /\ UNCHANGED <<tracker, last_practice>>

TeachingSessionStep(to) ==
    \E resp \in TeachResponses, random_factor \in RandomFactors :
        IF TeachingSessionRaises(state, resp)
        THEN Crash
        ELSE /\ state' = Merge(state,
                               teaching_session_node(state, resp, random_factor))
             /\ tracker' = record_session(tracker, state.current_strategy,
                               _simulate_student_response(state.current_strategy,
                                   state.current_proficiency, random_factor),
                               state.current_proficiency)
             /\ pc' = to
             /\ UNCHANGED last_practice

----------------------------------------------------------------------------
(* The workflow of core/graph.py: build_teaching_graph, run_teaching_workflow *)

\* diagnostic_phase_node, entry: the early return, or into the loop
GraphDiagnosticEnter ==
    /\ pc = "diagnostic_phase"
    /\ IF state.diagnostic_confidence >= MIN_DIAGNOSTIC_CONFIDENCE
       THEN /\ state' = Merge(state, diagnostic_phase_early_return(state))
            /\ pc' = "strategy_selector"
       ELSE /\ state' = state
            /\ pc' = "diagnostic_loop"
    /\ UNCHANGED <<tracker, last_practice>>

\* one iteration of the while loop of diagnostic_phase_node
GraphDiagnosticLoop(QResp, GResp) ==
    /\ pc = "diagnostic_loop"
    /\ DiagnosticLoopGuard(state)
    /\ DiagnosticStep("diagnostic_loop", QResp, GResp)

GraphDiagnosticStep ==
    GraphDiagnosticLoop(GraphDiagQuestionResponses, GraphDiagGradeResponses)

\* the loop is left: diagnostic_phase_node returns
GraphDiagnosticReturn ==
    /\ pc = "diagnostic_loop"
    /\ ~DiagnosticLoopGuard(state)
    /\ state' = Merge(state, diagnostic_phase_return(state))
    /\ pc' = "strategy_selector"
    /\ UNCHANGED <<tracker, last_practice>>

GraphSelector == pc = "strategy_selector" /\ LogRoom /\ SelectorStep("teach")

\* a graph whose teach node is followed by evaluate
GraphTeach_then_evaluate == pc = "teach" /\ LogRoom /\ TeachStep("evaluate")

GraphTeach == pc = "teach" /\ LogRoom /\ TeachStep("practice")

GraphPractice == pc = "practice" /\ LogRoom /\ PracticeStep("evaluate")

GraphEvaluate == pc = "evaluate" /\ LogRoom /\ EvaluateStep("meta_reasoner")

GraphMetaReasoner ==
    pc = "meta_reasoner" /\ LogRoom /\ MetaReasonerStep("route_decision")

\* the conditional edge out of meta_reasoner
GraphRoute ==
    /\ pc = "route_decision"
    /\ pc' = IF route_decision(state) = "strategy_selector"
             THEN "strategy_selector" ELSE "END"
    /\ UNCHANGED <<state, tracker, last_practice>>

Init ==
    /\ \E m \in 0..MaxAttemptsBound :
       \E s0 \in {create_initial_state("binary search"),
                  create_mock_state("binary search")} :
           state = [s0 EXCEPT !.max_attempts = m]
    /\ pc = "diagnostic_phase"
    /\ tracker = <<>>
    /\ last_practice = NoPractice

Next ==
    \/ GraphDiagnosticEnter
    \/ GraphDiagnosticStep
    \/ GraphDiagnosticReturn
    \/ GraphSelector
    \/ GraphTeach
    \/ GraphPractice
    \/ GraphEvaluate
    \/ GraphMetaReasoner
    \/ GraphRoute

Spec == Init /\ [][Next]_vars

----------------------------------------------------------------------------
(* The diagnostic phase alone, under both of its drivers *)

GraphDiagnosticAnyStep ==
    GraphDiagnosticLoop(DiagQuestionResponses, GradeResponses)

\* one iteration of the diagnostic loop of main: the node, then the exit test
\* and, on exit, current_proficiency = estimated_level
MainDiagnosticLoop(QResp, GResp) ==
    /\ pc = "main_diagnostic"
    /\ \E qresp \in QResp, gresp \in GResp :
           LET st1 == Merge(state,
                            adaptive_diagnostic_node(state, qresp, "answer", gresp))
               diagnostic_complete ==
                   \/ st1.diagnostic_confidence >= MIN_DIAGNOSTIC_CONFIDENCE
                   \/ Len(st1.diagnostic_questions) >= MAX_DIAGNOSTIC_QUESTIONS
           IN  IF diagnostic_complete
               THEN /\ state' = [st1 EXCEPT !.current_proficiency = st1.estimated_level]
                    /\ pc' = "main_teaching"
               ELSE /\ state' = st1
                    /\ pc' = "main_diagnostic"
    /\ UNCHANGED <<tracker, last_practice>>

MainDiagnosticStep == MainDiagnosticLoop(DiagQuestionResponses, GradeResponses)

DiagInit ==
    /\ state = create_mock_state("binary search")
    /\ pc \in {"diagnostic_phase", "main_diagnostic"}
    /\ tracker = <<>>
    /\ last_practice = NoPractice

DiagNext ==
    \/ GraphDiagnosticEnter
    \/ GraphDiagnosticAnyStep
    \/ GraphDiagnosticReturn
    \/ MainDiagnosticStep

DiagSpec == DiagInit /\ [][DiagNext]_vars

DiagnosticExited == pc \in {"strategy_selector", "main_teaching"}

----------------------------------------------------------------------------
(* route_decision on arbitrary states, as the routing tests build them *)

RouteInit ==
    /\ \E action \in ValidActions \cup {"diagnose", "no_such_action"},
          goal \in BOOLEAN,
          m \in 0..MaxAttemptsBound :
         \E attempt \in 0..(m + 1) :
           state = [create_mock_state("binary search") EXCEPT
                       !.next_action = action,
                       !.goal_achieved = goal,
                       !.max_attempts = m,
                       !.current_attempt = attempt]
    /\ pc = "route_decision"
    /\ tracker = <<>>
    /\ last_practice = NoPractice

RouteNext == GraphRoute

RouteSpec == RouteInit /\ [][RouteNext]_vars

----------------------------------------------------------------------------
(* Nodes invoked in any order, including the legacy teaching_session_node *)

NodeRoom ==
    /\ Len(state.decision_log) < MaxNodeLog
    /\ Len(state.sessions) < MaxSessions

NodeSelector == pc = "node" /\ NodeRoom /\ SelectorStep("node")
NodeTeach == pc = "node" /\ NodeRoom /\ TeachStep("node")
NodePractice == pc = "node" /\ NodeRoom /\ PracticeStep("node")
NodeEvaluate == pc = "node" /\ NodeRoom /\ EvaluateStep("node")
NodeMetaReasoner == pc = "node" /\ NodeRoom /\ MetaReasonerStep("node")
NodeTeachingSession == pc = "node" /\ NodeRoom /\ TeachingSessionStep("node")

NodeInit ==
    /\ state = [create_mock_state("binary search") EXCEPT
                   !.max_attempts = MaxAttemptsBound]
    /\ pc = "node"
    /\ tracker = <<>>
    /\ last_practice = NoPractice

NodeNext ==
    \/ NodeSelector
    \/ NodeTeach
    \/ NodePractice
    \/ NodeEvaluate
    \/ NodeMetaReasoner
    \/ NodeTeachingSession

NodeSpec == NodeInit /\ [][NodeNext]_vars

----------------------------------------------------------------------------
(* Properties *)

\* C1: routing safety.  Whenever route_decision is taken in a state with
\* current_attempt >= max_attempts, the workflow goes to the terminal route,
\* whatever next_action and goal_achieved are.
C1_RoutingSafety ==
    [][(pc = "route_decision" /\ state.current_attempt >= state.max_attempts)
          => pc' = "END"]_vars

\* C1 witness: the route was taken to END although the advice was "continue"
\* and the goal was not achieved
C1_Witness ==
    /\ pc = "END"
    /\ state.current_attempt >= state.max_attempts
    /\ state.next_action = "continue"
    /\ ~state.goal_achieved

\* number of selector -> ... -> meta_reasoner cycles started so far
Cycles(log) ==
    Cardinality({i \in DOMAIN log : log[i] \in {"strategy_selector", "strategy_reset"}})

\* C2: termination.  A run started with current_attempt = 0 and
\* max_attempts = M >= 1 starts at most M + 1 cycles.
C2_TerminationBound ==
    state.max_attempts >= 1 => Cycles(state.decision_log) <= state.max_attempts + 1

\* C3: every evaluate_node invocation that returns increases current_attempt by
\* exactly 1, and no other step of the pipeline changes current_attempt.
C3_AttemptCounter ==
    [][/\ (pc = "evaluate" /\ pc' = "meta_reasoner")
              => state'.current_attempt = state.current_attempt + 1
       /\ pc # "evaluate" => state'.current_attempt = state.current_attempt]_vars

\* C4: current_attempt <= max_attempts in every state of the workflow.
C4_AttemptWithinMax == state.current_attempt <= state.max_attempts

\* C5: whenever a diagnostic driving loop has exited, diagnostic_confidence is
\* at least 0.8.
C5_ExitConfidence ==
    DiagnosticExited => state.diagnostic_confidence >= MIN_DIAGNOSTIC_CONFIDENCE

\* what a diagnostic driver still has ahead of it: 0 once it has exited, else
\* the questions left to ask plus its exit step (and its entry step)
DiagnosticVariant ==
    IF DiagnosticExited THEN 0
    ELSE (MAX_DIAGNOSTIC_QUESTIONS - Len(state.diagnostic_questions)) + 1
         + (IF pc = "diagnostic_phase" THEN 1 ELSE 0)

\* C6: the diagnostic phase never holds more than 5 questions, and it
\* terminates under both drivers: every step of a driver strictly decreases a
\* measure that is a natural number, so no driver runs forever.
C6_DiagnosticBounded ==
    [][/\ Len(state'.diagnostic_questions) <= 5
       /\ DiagnosticVariant' < DiagnosticVariant
       /\ DiagnosticVariant' >= 0]_vars

\* C6 witness: a driver has exited after asking the full five questions
C6_Witness ==
    /\ DiagnosticExited
    /\ Len(state.diagnostic_questions) = 5

\* C7: no canonical node raises, whatever the LLM answers.
C7_NoNodeRaises == pc # "crashed"

\* C8: the practice node does no grading (it leaves sessions, strategy
\* effectiveness, proficiency and the failure counters alone), and only
\* evaluate_node appends to sessions.
C8_OneSessionPerCycle ==
    [][/\ (pc = "practice" /\ pc' = "evaluate") =>
              /\ state'.sessions = state.sessions
              /\ state'.available_strategies = state.available_strategies
              /\ state'.current_proficiency = state.current_proficiency
              /\ state'.consecutive_failures = state.consecutive_failures
              /\ state'.stuck_counter = state.stuck_counter
       /\ pc # "evaluate" => state'.sessions = state.sessions]_vars

\* C9: when evaluate_node is about to run, current_user_answer is the answer
\* typed at the practice node of this cycle and current_question_difficulty is
\* the difficulty of the question generated there.
C9_PracticeHandsOver ==
    pc = "evaluate" =>
        /\ state.current_user_answer = last_practice.answer
        /\ state.current_question_difficulty = last_practice.difficulty

\* C10: session numbering.  After any sequence of node invocations the N-th
\* element of sessions has session_id = N.
C10_SessionNumbering ==
    \A i \in 1..Len(state.sessions) : state.sessions[i].session_id = i

\* C10 witness: three sessions, one appended by each of the nodes that append
C10_Witness ==
    /\ Len(state.sessions) = 3
    /\ {state.sessions[i].node : i \in 1..3} =
           {"practice", "evaluate", "teaching_session"}

\* a value of the unit interval, in thousandths
InUnitRange(x) == 0 <= x /\ x <= 1000

\* C11: range invariant.  In every reachable state current_proficiency,
\* estimated_level, diagnostic_confidence, current_question_difficulty, every
\* session score and every strategy effectiveness lie in [0,1].
C11_RangeInvariant ==
    /\ InUnitRange(state.current_proficiency)
    /\ InUnitRange(state.estimated_level)
    /\ InUnitRange(state.diagnostic_confidence)
    /\ InUnitRange(state.current_question_difficulty)
    /\ \A i \in 1..Len(state.sessions) : InUnitRange(state.sessions[i].score)
    /\ \A i \in 1..Len(state.available_strategies) :
           InUnitRange(state.available_strategies[i].effectiveness)

\* decision_log before a step is a prefix of decision_log after it
IsLogPrefix(before, after) ==
    /\ Len(before) <= Len(after)
    /\ \A i \in 1..Len(before) : after[i] = before[i]

\* C12: decision_log is append-only.  Across every node invocation the log
\* before the node is a prefix of the log after it.
C12_LogAppendOnly ==
    [][IsLogPrefix(state.decision_log, state'.decision_log)]_vars

\* C12 witness: a run that went through every node and ended, its log holding
\* the diagnostic's entries and those of a full cycle
C12_Witness ==
    /\ pc = "END"
    /\ Len(state.decision_log) >= 11
    /\ state.decision_log[Len(state.decision_log)] = "meta_reasoner"

\* C13: route_decision implements the priority table exactly.  The route goes
\* to strategy_selector if and only if current_attempt < max_attempts,
\* goal_achieved is false and next_action = "continue"; in every other case it
\* goes to the terminal.
C13_RouteTable ==
    [][pc = "route_decision" =>
          /\ pc' \in {"strategy_selector", "END"}
          /\ pc' = "strategy_selector" <=>
                 /\ state.current_attempt < state.max_attempts
                 /\ ~state.goal_achieved
                 /\ state.next_action = "continue"]_vars

\* C13 witness: the route looped back to strategy_selector
C13_Witness ==
    /\ pc = "strategy_selector"
    /\ state.next_action = "continue"
    /\ ~state.goal_achieved
    /\ state.current_attempt + 1 = state.max_attempts

\* indices of the catalog entries attempted fewer than 2 times (a missing
\* counter counts as 0), or of the whole catalog when there is none
ViableIndices(st) ==
    LET fresh == {i \in 1..Len(st.available_strategies) :
                     GetAttempts(st.strategy_attempts,
                                 st.available_strategies[i].name) < 2}
    IN  IF fresh = {} THEN 1..Len(st.available_strategies) ELSE fresh

ViableNames(st) == {st.available_strategies[i].name : i \in ViableIndices(st)}

\* the viable entry of highest effectiveness, the earliest of the catalog on a tie
TopViableName(st) ==
    LET best == CHOOSE i \in ViableIndices(st) :
                    \A j \in ViableIndices(st) :
                        \/ st.available_strategies[j].effectiveness
                               < st.available_strategies[i].effectiveness
                        \/ /\ st.available_strategies[j].effectiveness
                                  = st.available_strategies[i].effectiveness
                           /\ i <= j
    IN  st.available_strategies[best].name

\* C14: with a non-empty catalog, whatever the LLM answers, the selector sets
\* current_strategy to a member of the viable set computed at entry, adds 1 to
\* that strategy's attempt counter and leaves every other counter unchanged; a
\* choice that is not viable (or not usable) is replaced by the top-ranked
\* viable strategy.
C14_SelectorChoice ==
    (pc = "strategy_selector" /\ state.available_strategies # <<>>) =>
        \A resp \in SelectorResponses :
            LET upd == strategy_selector_node(state, resp)
                chosen == upd.current_strategy
                before == state.strategy_attempts
                after == upd.strategy_attempts
            IN  /\ chosen \in ViableNames(state)
                /\ DOMAIN after = DOMAIN before \cup {chosen}
                /\ after[chosen] = GetAttempts(before, chosen) + 1
                /\ \A n \in DOMAIN after \ {chosen} : after[n] = before[n]
                /\ (resp.ok /\ resp.chosen_strategy \in ViableNames(state))
                       => chosen = resp.chosen_strategy
                /\ ~(resp.ok /\ resp.chosen_strategy \in ViableNames(state))
                       => chosen = TopViableName(state)

\* C14 witness: the selector has run in a state where socratic, the LLM's
\* choice, was no longer viable, and another strategy was selected
C14_Witness ==
    /\ pc = "teach"
    /\ GetAttempts(state.strategy_attempts, "socratic") = 2
    /\ state.current_strategy \in ValidStrategies \ {"socratic"}
    /\ Cycles(state.decision_log) = 3

----------------------------------------------------------------------------
(* strategy_selector_node invoked again and again, on either initial catalog *)

\* what the selector's LLM may answer: unusable, or any catalog name
AnySelectorResponses ==
    {[ok |-> FALSE, chosen_strategy |-> ""]}
        \cup {[ok |-> TRUE, chosen_strategy |-> n] : n \in ValidStrategies}

SelectorAgain ==
    /\ pc = "selector_only"
    /\ Len(state.decision_log) < MaxSelectorCalls
    /\ \E resp \in AnySelectorResponses :
           state' = Merge(state, strategy_selector_node(state, resp))
    /\ UNCHANGED <<pc, tracker, last_practice>>

SelectorInit ==
    /\ state \in {create_initial_state("binary search"),
                  create_mock_state("binary search")}
    /\ pc = "selector_only"
    /\ tracker = <<>>
    /\ last_practice = NoPractice

SelectorNext == SelectorAgain

SelectorSpec == SelectorInit /\ [][SelectorNext]_vars

\* every strategy of a non-empty catalog has been attempted 2 or more times
Exhausted(st) ==
    /\ st.available_strategies # <<>>
    /\ \A i \in 1..Len(st.available_strategies) :
           GetAttempts(st.strategy_attempts, st.available_strategies[i].name) >= 2

\* C15: exhaustion reset.  When every strategy has been attempted 2 or more
\* times the selector resets every counter to 0, chooses no strategy and logs
\* a reset; so the strategy a selector step selects always had fewer than 2
\* attempts.
C15_ExhaustionReset ==
    [][IF Exhausted(state)
       THEN /\ \A n \in DOMAIN state'.strategy_attempts :
                   state'.strategy_attempts[n] = 0
            /\ state'.current_strategy = state.current_strategy
            /\ state'.decision_log = Append(state.decision_log, "strategy_reset")
       ELSE state'.decision_log = Append(state.decision_log, "strategy_selector") =>
                GetAttempts(state.strategy_attempts, state'.current_strategy) < 2]_vars

\* what get_viable_strategies returns in the current state
ViableNow ==
    get_viable_strategies(state.available_strategies, state.strategy_attempts,
                          STRATEGY_MAX_ATTEMPTS)

\* ViableNow is the catalog restricted to ViableIndices, in catalog order
ViableIsFilterOrCatalog ==
    LET idx == ViableIndices(state)
    IN  /\ Len(ViableNow) = Cardinality(idx)
        /\ \A k \in 1..Len(ViableNow) :
               LET i == CHOOSE i \in idx : Cardinality({j \in idx : j <= i}) = k
               IN  ViableNow[k] = state.available_strategies[i]

\* C16, as stated: get_viable_strategies never returns an empty list; it
\* returns exactly the strategies attempted fewer than 2 times, or the whole
\* catalog when every strategy has 2 or more attempts.
C16_ViableNeverEmpty ==
    /\ ViableNow # <<>>
    /\ ViableIsFilterOrCatalog

\* C16, amended: the same for a non-empty catalog; for the empty catalog
\* get_viable_strategies returns the empty list.
C16_ViableNeverEmptyOfNonEmptyCatalog ==
    /\ state.available_strategies # <<>> => ViableNow # <<>>
    /\ state.available_strategies = <<>> => ViableNow = <<>>
    /\ ViableIsFilterOrCatalog

\* C16 witness: every strategy has been attempted twice and the whole catalog
\* is viable again
C16_Witness ==
    /\ Exhausted(state)
    /\ ViableNow = state.available_strategies

----------------------------------------------------------------------------
(* update_strategy_effectiveness applied again and again, as the graded nodes
   apply it after tracking the session *)

\* scores a caller may pass: the unit interval's ends, a usual score, and
\* values outside [0,1]
UpdateScores == {-3000, 0, 900, 3000}

UpdateNames == ValidStrategies \cup {"no_such_strategy"}

UpdateEffectiveness ==
    /\ pc = "update_only"
    /\ Len(tracker) < MaxUpdates
    /\ \E name \in UpdateNames, score \in UpdateScores :
           /\ tracker' = record_session(tracker, name, score,
                                        state.current_proficiency)
           /\ state' = [state EXCEPT !.available_strategies =
                           update_strategy_effectiveness(
                               state.available_strategies, name, score)]
    /\ UNCHANGED <<pc, last_practice>>

UpdateInit ==
    /\ state = create_mock_state("binary search")
    /\ pc = "update_only"
    /\ tracker = <<>>
    /\ last_practice = NoPractice

UpdateNext == UpdateEffectiveness

UpdateSpec == UpdateInit /\ [][UpdateNext]_vars

\* clamp(old*0.7 + score*0.3, 0, 1), in thousandths
ExpectedEffectiveness(old, score) ==
    LET raw == (old * 7 + score * 3) \div 10
    IN  IF raw < 0 THEN 0 ELSE IF raw > 1000 THEN 1000 ELSE raw

\* C17: update_strategy_effectiveness returns a list of the same length and
\* order in which the named entry has effectiveness
\* clamp(old*0.7 + score*0.3, 0, 1) and every other entry is unchanged
\* (0.70 with score 0.90 gives 0.76, 0.70 with score 0.0 gives 0.49).
C17_EffectivenessUpdate ==
    /\ \A name \in UpdateNames, score \in UpdateScores :
           LET before == state.available_strategies
               after == update_strategy_effectiveness(before, name, score)
           IN  /\ Len(after) = Len(before)
               /\ \A i \in 1..Len(before) :
                      /\ after[i].name = before[i].name
                      /\ after[i].effectiveness =
                             IF before[i].name = name
                             THEN ExpectedEffectiveness(before[i].effectiveness, score)
                             ELSE before[i].effectiveness
               /\ \A i \in 1..Len(after) : InUnitRange(after[i].effectiveness)
    /\ \A s \in {get_default_strategies} :
           /\ update_strategy_effectiveness(s, "socratic", 900)[2].effectiveness = 760
           /\ update_strategy_effectiveness(s, "socratic", 0)[2].effectiveness = 490

\* C17 witness: two updates were applied, one that the clamp cut to 1 and one
\* that gave 0.49; the other entries still hold 0.70
C17_Witness ==
    /\ Len(tracker) = 2
    /\ state.available_strategies[1].effectiveness = 1000
    /\ state.available_strategies[2].effectiveness = 490
    /\ state.available_strategies[3].effectiveness = 700

----------------------------------------------------------------------------
(* The diagnostic loop of main with an LLM that respects no range *)

\* neither DiagnosticQuestion nor AnswerEvaluation bounds its numbers
WideLevels == {-500, 0, 300, 900, 1500}
WideQualities == {-200, 100, 300, 500, 700, 900, 1500}

WideQuestionResponses == {[ok |-> TRUE, expected_level |-> e] : e \in WideLevels}
WideGradeResponses == {[ok |-> TRUE, quality_score |-> q] : q \in WideQualities}

MainDiagnosticWideStep ==
    MainDiagnosticLoop(WideQuestionResponses, WideGradeResponses)

LevelInit ==
    /\ state = create_mock_state("binary search")
    /\ pc = "main_diagnostic"
    /\ tracker = <<>>
    /\ last_practice = NoPractice

LevelNext == MainDiagnosticWideStep

LevelSpec == LevelInit /\ [][LevelNext]_vars

\* C18: calculate_level_adjustment returns a value in [-0.25, +0.25] for all
\* answer_quality, expected_level and current_estimated_level, inside [0,1] or
\* not; for quality 0.9, expected 0.9, current 0.5 it returns 0.225.
C18_LevelAdjustmentBounded ==
    /\ \A q \in WideQualities, e \in WideLevels,
          c \in WideLevels \cup {state.estimated_level} :
           /\ calculate_level_adjustment(q, e, c) >= -250
           /\ calculate_level_adjustment(q, e, c) <= 250
    /\ calculate_level_adjustment(900, 900, 500) = 225

\* C18 witness: the first answer, excellent on a much harder question, moved
\* the estimated level by 0.225, from 0.2 to 0.425
C18_Witness ==
    /\ Len(state.diagnostic_questions) = 1
    /\ state.estimated_level = 425

\* scores and levels of the unit interval, on and around the thresholds of
\* _calculate_proficiency_gain
GainScores == {0, 300, 400, 600, 700, 1000}
GainLevels == {0, 200, 500, 800, 1000}

\* evaluate_node has just graded a session
EvaluateGraded ==
    /\ pc = "evaluate"
    /\ pc' = "meta_reasoner"
    /\ Len(state'.sessions) = Len(state.sessions) + 1

\* C19: _calculate_proficiency_gain returns a value in [-0.15, +0.15] for all
\* score, current_level and difficulty in [0,1] (score 1.0 with difficulty
\* equal to the current level gives 0.10), and evaluate_node sets
\* current_proficiency to clamp(current + gain, 0, 1).
C19_ProficiencyGain ==
    /\ [](pc = "evaluate" =>
            /\ \A score \in GainScores,
                  level \in GainLevels \cup {state.current_proficiency},
                  difficulty \in GainLevels \cup {state.current_question_difficulty} :
                   LET gain == _calculate_proficiency_gain(score, level, difficulty)
                   IN  gain >= -150 /\ gain <= 150
            /\ \A level \in GainLevels \cup {state.current_proficiency} :
                   _calculate_proficiency_gain(1000, level, level) = 100)
    /\ [][EvaluateGraded =>
             LET score == state'.sessions[Len(state'.sessions)].score
                 raw == state.current_proficiency
                          + _calculate_proficiency_gain(
                                score, state.current_proficiency,
                                state.current_question_difficulty)
             IN  /\ InUnitRange(score)
                 /\ state'.current_proficiency =
                        IF raw < 0 THEN 0 ELSE IF raw > 1000 THEN 1000 ELSE raw]_vars

\* C19 witness: evaluate_node graded a session 0.9 and raised the proficiency
C19_Witness ==
    /\ pc = "meta_reasoner"
    /\ state.sessions # <<>>
    /\ state.sessions[Len(state.sessions)].node = "evaluate"
    /\ state.sessions[Len(state.sessions)].score = 900
    /\ state.current_proficiency >= 290

\* C20: after each session graded by evaluate_node, consecutive_failures and
\* stuck_counter are both 0 if the score is at least 0.6, and both their
\* previous value + 1 otherwise.
C20_FailureCounters ==
    [][EvaluateGraded =>
          LET score == state'.sessions[Len(state'.sessions)].score
          IN  IF score >= 600
              THEN /\ state'.consecutive_failures = 0
                   /\ state'.stuck_counter = 0
              ELSE /\ state'.consecutive_failures = state.consecutive_failures + 1
                   /\ state'.stuck_counter = state.stuck_counter + 1]_vars

\* C20 witness: evaluate_node graded a success after earlier failures, and
\* both counters are back at 0
C20_Witness ==
    /\ pc = "meta_reasoner"
    /\ Len(state.sessions) >= 3
    /\ state.sessions[Len(state.sessions)].node = "evaluate"
    /\ state.sessions[Len(state.sessions)].score = 900
    /\ state.sessions[Len(state.sessions) - 1].score = 500
    /\ state.sessions[Len(state.sessions) - 2].score = 200
    /\ state.consecutive_failures = 0
    /\ state.stuck_counter = 0

\* C21: when current_question is empty, evaluate_node is a soft no-op: whatever
\* the LLM would answer it raises nothing and returns no updates, so no state
\* field and no tracker entry changes and the workflow moves on to
\* meta_reasoner.
C21_EvaluateSkips ==
    [][(pc = "evaluate" /\ state.current_question = "") =>
          /\ ~EvaluateRaises(state)
          /\ \A resp \in EvaluateResponses : evaluate_node(state, resp) = EmptyUpdate
          /\ state' = state
          /\ tracker' = tracker
          /\ pc' = "meta_reasoner"]_vars

\* C21 witness: evaluate_node was skipped after a practice that stored an empty
\* question; the last log entry is still practice's
C21_Witness ==
    /\ pc = "meta_reasoner"
    /\ state.current_question = ""
    /\ state.decision_log # <<>>
    /\ state.decision_log[Len(state.decision_log)] = "practice"

\* meta-reasoner responses that parse_meta_reasoner_decision rejects
UnparseableMetaResponses ==
    {resp \in MetaResponses : ~resp.ok \/ resp.next_action \notin ValidActions}

\* C22: when the meta-reasoner's response cannot be parsed or validated,
\* meta_reasoner_node returns next_action "continue", goal_achieved false,
\* needs_prerequisite false and prerequisite_topic ""; route_decision then
\* loops to strategy_selector if current_attempt < max_attempts and ends the
\* workflow otherwise.
C22_MetaFallback ==
    (pc = "meta_reasoner" /\ ~MetaReasonerRaises(state)) =>
        \A resp \in UnparseableMetaResponses :
            LET updates == meta_reasoner_node(state, resp)
                st1 == Merge(state, updates)
            IN  /\ updates.next_action = "continue"
                /\ updates.goal_achieved = FALSE
                /\ updates.needs_prerequisite = FALSE
                /\ updates.prerequisite_topic = ""
                /\ route_decision(st1) =
                       IF st1.current_attempt < st1.max_attempts
                       THEN "strategy_selector" ELSE "end"

\* C22 witness: the fallback decision is in the state and the workflow looped
\* back to strategy_selector with attempts left
C22_Witness ==
    /\ pc = "strategy_selector"
    /\ state.decision_log # <<>>
    /\ state.decision_log[Len(state.decision_log)] = "meta_reasoner"
    /\ state.next_action = "continue"
    /\ ~state.goal_achieved
    /\ ~state.needs_prerequisite
    /\ state.prerequisite_topic = ""
    /\ state.current_attempt >= 1
    /\ state.current_attempt < state.max_attempts

----------------------------------------------------------------------------
(* config/parsers.py: texts are sequences of one-character strings *)

UpperCase ==
    <<"A", "B", "C", "D", "E", "F", "G", "H", "I", "J", "K", "L", "M",
      "N", "O", "P", "Q", "R", "S", "T", "U", "V", "W", "X", "Y", "Z">>

LowerCase ==
    <<"a", "b", "c", "d", "e", "f", "g", "h", "i", "j", "k", "l", "m",
      "n", "o", "p", "q", "r", "s", "t", "u", "v", "w", "x", "y", "z">>

Whitespace == {" ", "\t", "\n", "\r"}

\* str.lower, one character
lower_char(c) ==
    IF \E i \in DOMAIN UpperCase : UpperCase[i] = c
    THEN LowerCase[CHOOSE i \in DOMAIN UpperCase : UpperCase[i] = c]
    ELSE c

\* str.upper, one character
upper_char(c) ==
    IF \E i \in DOMAIN LowerCase : LowerCase[i] = c
    THEN UpperCase[CHOOSE i \in DOMAIN LowerCase : LowerCase[i] = c]
    ELSE c

\* str.lower
lower(text) == [i \in 1..Len(text) |-> lower_char(text[i])]

\* str.strip
strip(text) ==
    LET kept == {i \in 1..Len(text) : text[i] \notin Whitespace}
    IN  IF kept = {} THEN <<>>
        ELSE SubSeq(text, CHOOSE i \in kept : \A j \in kept : i <= j,
                          CHOOSE i \in kept : \A j \in kept : i >= j)

Word_beginner == <<"b", "e", "g", "i", "n", "n", "e", "r">>
Word_novice == <<"n", "o", "v", "i", "c", "e">>
Word_basic == <<"b", "a", "s", "i", "c">>
Word_elementary == <<"e", "l", "e", "m", "e", "n", "t", "a", "r", "y">>
Word_intermediate == <<"i", "n", "t", "e", "r", "m", "e", "d", "i", "a", "t", "e">>
Word_medium == <<"m", "e", "d", "i", "u", "m">>
Word_moderate == <<"m", "o", "d", "e", "r", "a", "t", "e">>
Word_advanced == <<"a", "d", "v", "a", "n", "c", "e", "d">>
Word_expert == <<"e", "x", "p", "e", "r", "t">>
Word_proficient == <<"p", "r", "o", "f", "i", "c", "i", "e", "n", "t">>

valid_levels == {Word_beginner, Word_intermediate, Word_advanced}

\* the level_mapping dict of parse_answer_evaluation, as a set of key/value pairs
level_mapping ==
    {<<Word_beginner, Word_beginner>>,
     <<Word_novice, Word_beginner>>,
     <<Word_basic, Word_beginner>>,
     <<Word_elementary, Word_beginner>>,
     <<Word_intermediate, Word_intermediate>>,
     <<Word_medium, Word_intermediate>>,
     <<Word_moderate, Word_intermediate>>,
     <<Word_advanced, Word_advanced>>,
     <<Word_expert, Word_advanced>>,
     <<Word_proficient, Word_advanced>>}

\* dict.get(key, default) on a set of key/value pairs
DictGet(dict, key, default) ==
    IF \E p \in dict : p[1] = key
    THEN (CHOOSE p \in dict : p[1] = key)[2]
    ELSE default

\* a normalisation that looks the text up as it is written, without lower()
normalized_level_case_sensitive(level_indication) ==
    LET level_lower == strip(level_indication)
        mapped == DictGet(level_mapping, level_lower, level_lower)
    IN  IF mapped \notin valid_levels THEN Word_intermediate ELSE mapped

\* parse_answer_evaluation: the value stored in data["level_indication"]
normalized_level(level_indication) ==
    LET level_lower == strip(lower(level_indication))
        mapped == DictGet(level_mapping, level_lower, level_lower)
    IN  IF mapped \notin valid_levels THEN Word_intermediate ELSE mapped

\* level indications an LLM may write: every key of the table and some other
\* texts, in several casings, with and without surrounding whitespace
OtherIndications ==
    {<<>>, <<"g", "u", "r", "u">>, <<"b", "a", "s", "i", "c", "s">>,
     <<"e", "x", " ", "p", "e", "r", "t">>, <<"p", "r", "o">>}

BaseIndications == {p[1] : p \in level_mapping} \cup OtherIndications

Capitalized(text) ==
    [i \in 1..Len(text) |-> IF i = 1 THEN upper_char(text[i]) ELSE text[i]]

Alternating(text) ==
    [i \in 1..Len(text) |-> IF i % 2 = 0 THEN upper_char(text[i]) ELSE text[i]]

Casings(text) ==
    {text, [i \in 1..Len(text) |-> upper_char(text[i])], Capitalized(text),
     Alternating(text)}

Paddings(text) ==
    {text, <<" ">> \o text, text \o <<"\n">>, <<"\t", " ">> \o text \o <<" ", "\r">>}

LevelIndications ==
    UNION {UNION {Paddings(c) : c \in Casings(b)} : b \in BaseIndications}

\* parse_answer_evaluation applied to a response whose other fields are valid
ParseAnswerEvaluation ==
    /\ pc = "parse_answer_evaluation"
    /\ state' = [state EXCEPT !.level_indication = normalized_level(@)]
    /\ pc' = "parsed"
    /\ UNCHANGED <<tracker, last_practice>>

IndicationInit ==
    /\ \E text \in LevelIndications :
           state = [response |-> text, level_indication |-> text]
    /\ pc = "parse_answer_evaluation"
    /\ tracker = <<>>
    /\ last_practice = NoPractice

IndicationNext == ParseAnswerEvaluation

IndicationSpec == IndicationInit /\ [][IndicationNext]_vars

\* text is word written in any casing, with any whitespace around it
WrittenAs(text, word) ==
    \E first \in 1..(Len(text) + 1) :
        /\ first + Len(word) - 1 <= Len(text)
        /\ \A i \in 1..Len(text) :
               IF i >= first /\ i < first + Len(word)
               THEN lower_char(text[i]) = word[i - first + 1]
               ELSE text[i] \in Whitespace

\* C23: level-indication normalization is total.  Case-insensitively and after
\* trimming, beginner / novice / basic / elementary give beginner,
\* intermediate / medium / moderate give intermediate, advanced / expert /
\* proficient give advanced, and every other string gives intermediate.
C23_LevelIndicationTotal ==
    pc = "parsed" =>
        LET text == state.response
            level == state.level_indication
        IN  /\ level \in valid_levels
            /\ (\E w \in {Word_beginner, Word_novice, Word_basic, Word_elementary} :
                    WrittenAs(text, w)) => level = Word_beginner
            /\ (\E w \in {Word_intermediate, Word_medium, Word_moderate} :
                    WrittenAs(text, w)) => level = Word_intermediate
            /\ (\E w \in {Word_advanced, Word_expert, Word_proficient} :
                    WrittenAs(text, w)) => level = Word_advanced
            /\ (~\E p \in level_mapping : WrittenAs(text, p[1]))
                   => level = Word_intermediate

\* C23 witness: " \tEXPERT \r" was normalised to advanced
C23_Witness ==
    /\ pc = "parsed"
    /\ state.response = <<"\t", " ", "E", "X", "P", "E", "R", "T", " ", "\r">>
    /\ state.level_indication = Word_advanced

----------------------------------------------------------------------------
(* config/parsers.py: _extract_json_string *)

\* the grave accent, which a string constant cannot hold, is written out
Backtick == "grave_accent"

Fence == <<Backtick, Backtick, Backtick>>

\* text.startswith("{") and text.endswith("}")
LooksLikeObject(text) ==
    /\ Len(text) > 0
    /\ text[1] = "{"
    /\ text[Len(text)] = "}"

Occurs(text, sub, i) ==
    /\ i + Len(sub) - 1 <= Len(text)
    /\ SubSeq(text, i, i + Len(sub) - 1) = sub

\* str.find, 1-based, 0 when sub does not occur
find(text, sub) ==
    LET at == {i \in 1..Len(text) : Occurs(text, sub, i)}
    IN  IF at = {} THEN 0 ELSE CHOOSE i \in at : \A j \in at : i <= j

\* str.rfind, 1-based, 0 when sub does not occur
rfind(text, sub) ==
    LET at == {i \in 1..Len(text) : Occurs(text, sub, i)}
    IN  IF at = {} THEN 0 ELSE CHOOSE i \in at : \A j \in at : i >= j

\* str.split(sep): the parts between leftmost non-overlapping separators
RECURSIVE split(_, _)
split(text, sep) ==
    LET i == find(text, sep)
    IN  IF i = 0 THEN <<text>>
        ELSE <<SubSeq(text, 1, i - 1)>>
                 \o split(SubSeq(text, i + Len(sep), Len(text)), sep)

\* re.sub(r"^\s*json\s*\n", "", block, flags=re.IGNORECASE): leading
\* whitespace, json in any casing, and the whitespace after it up to its last
\* newline are removed; without such a newline nothing is removed
strip_json_tag(block) ==
    LET lead == Cardinality({n \in 1..Len(block) :
                                \A i \in 1..n : block[i] \in Whitespace})
        has_tag == /\ lead + 4 <= Len(block)
                   /\ lower(SubSeq(block, lead + 1, lead + 4)) = <<"j", "s", "o", "n">>
        newlines == {n \in (lead + 5)..Len(block) :
                        /\ block[n] = "\n"
                        /\ \A i \in (lead + 5)..n : block[i] \in Whitespace}
    IN  IF has_tag /\ newlines # {}
        THEN SubSeq(block, (CHOOSE n \in newlines : \A m \in newlines : n >= m) + 1,
                    Len(block))
        ELSE block

\* an extraction that never looks at fenced blocks
_extract_json_string_without_fences(text) ==
    LET stripped == strip(text)
        start == find(stripped, <<"{">>)
        end == rfind(stripped, <<"}">>)
    IN  IF LooksLikeObject(stripped) THEN stripped
        ELSE IF start # 0 /\ end # 0 /\ end > start
             THEN strip(SubSeq(stripped, start, end))
        ELSE stripped

_extract_json_string(text) ==
    LET stripped == strip(text)
        parts == split(stripped, Fence)
        candidate == [i \in 1..Len(parts) |-> strip(strip_json_tag(parts[i]))]
        \* parts[1], parts[3], ... of the code are the even parts here
        blocks == {i \in 1..Len(parts) : i % 2 = 0 /\ LooksLikeObject(candidate[i])}
        start == find(stripped, <<"{">>)
        end == rfind(stripped, <<"}">>)
    IN  IF LooksLikeObject(stripped) THEN stripped
        ELSE IF find(stripped, Fence) # 0 /\ blocks # {}
             THEN candidate[CHOOSE i \in blocks : \A j \in blocks : i <= j]
        ELSE IF start # 0 /\ end # 0 /\ end > start
             THEN strip(SubSeq(stripped, start, end))
        ELSE stripped

\* the most pieces a generated response is made of
MaxPieces == 4

JsonObject == <<"{", "\"", "a", "\"", ":", "1", "}">>

\* what LLM responses are made of: fences, language tags with and without a
\* newline, braces, a complete object, prose and whitespace
Pieces ==
    {Fence, <<"j", "s", "o", "n", "\n">>, <<"J", "s", "o", "n", " ">>,
     <<"\n">>, <<" ">>, <<"{">>, <<"}">>, JsonObject, <<"x">>}

RECURSIVE PieceTexts(_)
PieceTexts(n) ==
    IF n = 0 THEN {<<>>}
    ELSE LET shorter == PieceTexts(n - 1)
         IN  shorter \cup {t \o p : t \in shorter, p \in Pieces}

\* a fenced json block holding {"a":1} inside prose
FencedInProse ==
    <<"x", " ">> \o Fence \o <<"j", "s", "o", "n", "\n">> \o JsonObject
        \o <<"\n">> \o Fence \o <<" ", "x">>

\* longer responses: several blocks, a tag without newline before a later
\* block, an unclosed fence, braces in the prose around a block
LongTexts ==
    {FencedInProse,
     Fence \o <<"x">> \o Fence \o <<" ">> \o Fence \o JsonObject \o Fence,
     <<"x">> \o Fence \o <<"j", "s", "o", "n", " ">> \o JsonObject \o Fence
         \o <<"x">> \o Fence \o <<"{", "}">> \o Fence,
     <<"x", " ", "{", " ">> \o Fence \o <<"\n">> \o JsonObject,
     <<"{", "x", "}", " ">> \o Fence \o <<"J", "S", "O", "N", " ", "\n">>
         \o JsonObject \o Fence \o <<" ", "x">>,
     <<"x", Backtick>> \o Fence \o JsonObject \o Fence \o <<Backtick, "x">>,
     Fence \o JsonObject \o Fence \o <<"x">> \o Fence \o <<"{", "}">> \o Fence \o <<"x">>}

ResponseTexts == PieceTexts(MaxPieces) \cup LongTexts

ExtractJsonString ==
    /\ pc = "_extract_json_string"
    /\ state' = [state EXCEPT !.extracted = _extract_json_string(state.text)]
    /\ pc' = "extracted"
    /\ UNCHANGED <<tracker, last_practice>>

ExtractInit ==
    /\ \E text \in ResponseTexts : state = [text |-> text, extracted |-> <<>>]
    /\ pc = "_extract_json_string"
    /\ tracker = <<>>
    /\ last_practice = NoPractice

ExtractNext == ExtractJsonString

ExtractSpec == ExtractInit /\ [][ExtractNext]_vars

\* where the fences of a text start: every third grave accent of a run
FenceStarts(text) ==
    {i \in 1..(Len(text) - 2) :
        /\ \A k \in i..(i + 2) : text[k] = Backtick
        /\ LET run_start == CHOOSE j \in 1..i :
                                /\ \A k \in j..i : text[k] = Backtick
                                /\ j = 1 \/ text[j - 1] # Backtick
           IN  (i - run_start) % 3 = 0}

NthFence(text, n) ==
    CHOOSE f \in FenceStarts(text) :
        Cardinality({g \in FenceStarts(text) : g < f}) = n - 1

\* the k-th fenced block: what stands between fence 2k-1 and fence 2k, or the
\* end of the text when the block is not closed
FencedBlock(text, k) ==
    SubSeq(text, NthFence(text, 2 * k - 1) + 3,
           IF 2 * k <= Cardinality(FenceStarts(text))
           THEN NthFence(text, 2 * k) - 1 ELSE Len(text))

FencedBlockCount(text) == (Cardinality(FenceStarts(text)) + 1) \div 2

\* a first line that holds nothing but the word json, in any casing
IsJsonTagLine(line) ==
    \E a \in 1..(Len(line) - 3) :
        /\ lower(SubSeq(line, a, a + 3)) = <<"j", "s", "o", "n">>
        /\ \A i \in (1..Len(line)) \ (a..(a + 3)) : line[i] \in Whitespace

\* the trimmed content of a block, its json tag line removed
BlockContent(block) ==
    LET tagged == {n \in 1..Len(block) :
                      block[n] = "\n" /\ IsJsonTagLine(SubSeq(block, 1, n))}
    IN  IF tagged = {} THEN strip(block)
        ELSE strip(SubSeq(block, (CHOOSE n \in tagged : TRUE) + 1, Len(block)))

\* C24: _extract_json_string returns a trimmed text that starts with { and
\* ends with } unchanged; otherwise the first fenced block (json tag removed)
\* that starts with { and ends with }; otherwise the substring from the first
\* { to the last }; otherwise the trimmed text.  The fenced json block holding
\* {"a":1} inside prose extracts to exactly {"a":1}.
C24_ExtractJsonString ==
    pc = "extracted" =>
        LET trimmed == strip(state.text)
            result == state.extracted
            objects == {k \in 1..FencedBlockCount(trimmed) :
                           LooksLikeObject(BlockContent(FencedBlock(trimmed, k)))}
            opening == {i \in 1..Len(trimmed) : trimmed[i] = "{"}
            closing == {i \in 1..Len(trimmed) : trimmed[i] = "}"}
            spans == {p \in opening \X closing : p[1] < p[2]}
        IN  /\ IF LooksLikeObject(trimmed) THEN result = trimmed
               ELSE IF objects # {}
                    THEN result = BlockContent(FencedBlock(trimmed,
                                      CHOOSE k \in objects : \A j \in objects : k <= j))
               ELSE IF spans # {}
                    THEN result = SubSeq(trimmed,
                                      CHOOSE i \in opening : \A j \in opening : i <= j,
                                      CHOOSE i \in closing : \A j \in closing : i >= j)
               ELSE result = trimmed
            /\ state.text = FencedInProse => result = JsonObject

\* C24 witness: the fenced json block inside prose was extracted
C24_Witness ==
    /\ pc = "extracted"
    /\ state.text = FencedInProse
    /\ state.extracted = JsonObject

\* the fields meta_reasoner_node writes
DecisionFields ==
    {"next_action", "goal_achieved", "needs_prerequisite", "prerequisite_topic",
     "decision_log"}

\* C25: when the meta-reasoner decides next_action = "prerequisite", the
\* workflow goes straight to the terminal state: the decision step changes
\* only the decision fields (the topic stays), the route out of it ends the
\* run with the state as the meta-reasoner left it, and nothing runs after
\* the end.
C25_PrerequisiteEnds ==
    [][/\ (pc = "meta_reasoner" /\ pc' = "route_decision"
              /\ state'.next_action = "prerequisite")
           => /\ \A f \in DOMAIN state \ DecisionFields : state'[f] = state[f]
              /\ \E resp \in MetaResponses :
                     /\ resp.next_action = "prerequisite"
                     /\ state'.needs_prerequisite = resp.needs_prerequisite
                     /\ state'.prerequisite_topic = resp.prerequisite_topic
       /\ (pc = "route_decision" /\ state.next_action = "prerequisite")
           => (pc' = "END" /\ state' = state /\ tracker' = tracker)
       /\ pc # "END"]_vars

\* C25 witness: a run ended on a prerequisite decision with attempts left, the
\* suggestion in the final state and the topic as it was
C25_Witness ==
    /\ pc = "END"
    /\ state.next_action = "prerequisite"
    /\ state.needs_prerequisite
    /\ state.prerequisite_topic = "arrays"
    /\ state.topic = "binary search"
    /\ ~state.goal_achieved
    /\ state.current_attempt < state.max_attempts

----------------------------------------------------------------------------
(* The diagnostic phase with every answer graded 0.5, under both drivers *)

\* questions of several expected levels, and the fallback question
HalfQuestionResponses ==
    {[ok |-> FALSE, expected_level |-> 0]}
        \cup {[ok |-> TRUE, expected_level |-> e] : e \in {0, 300, 500}}

\* a grade of 0.5, parsed or by the fallback of evaluate_answer_quality
HalfGradeResponses ==
    {[ok |-> TRUE, quality_score |-> 500], [ok |-> FALSE, quality_score |-> 0]}

HalfGraphDiagnosticStep ==
    GraphDiagnosticLoop(HalfQuestionResponses, HalfGradeResponses)

HalfMainDiagnosticStep ==
    MainDiagnosticLoop(HalfQuestionResponses, HalfGradeResponses)

HalfInit ==
    /\ state \in {create_initial_state("binary search"),
                  create_mock_state("binary search")}
    /\ pc \in {"diagnostic_phase", "main_diagnostic"}
    /\ tracker = <<>>
    /\ last_practice = NoPractice

HalfNext ==
    \/ GraphDiagnosticEnter
    \/ HalfGraphDiagnosticStep
    \/ GraphDiagnosticReturn
    \/ HalfMainDiagnosticStep

HalfSpec == HalfInit /\ [][HalfNext]_vars

\* the rule table at quality 0.5: -0.05 for a question above the estimate and
\* +0.02 otherwise, halved when the question is more than 0.2 away
HalfQualityAdjustment(expected_level, previous) ==
    IF expected_level > previous + 200 THEN -25
    ELSE IF expected_level > previous THEN -50
    ELSE IF expected_level >= previous - 200 THEN 20
    ELSE 10

\* C26: with every answer graded 0.5, from the fresh state (confidence 0,
\* estimated_level 0.2), exactly 5 questions are asked, and after each
\* question estimated_level = clamp(previous + adjustment(0.5, expected_level,
\* previous), 0, 1) for the expected level of that question.
C26_HalfQualityDiagnostic ==
    /\ [](/\ Len(state.diagnostic_questions) <= 5
          /\ DiagnosticExited => Len(state.diagnostic_questions) = 5)
    /\ [][Len(state'.diagnostic_questions) # Len(state.diagnostic_questions) =>
             /\ Len(state'.diagnostic_questions) = Len(state.diagnostic_questions) + 1
             /\ \E q \in HalfQuestionResponses :
                    LET previous == state.estimated_level
                        expected_level == IF q.ok THEN q.expected_level ELSE previous
                        raw == previous + HalfQualityAdjustment(expected_level, previous)
                    IN  /\ calculate_level_adjustment(500, expected_level, previous)
                               = HalfQualityAdjustment(expected_level, previous)
                        /\ state'.estimated_level =
                               IF raw < 0 THEN 0 ELSE IF raw > 1000 THEN 1000 ELSE raw]_vars

\* C26 witness: the graph's diagnostic phase is over after five questions above
\* the estimate, which brought it from 0.2 down to the clamp at 0
C26_Witness ==
    /\ pc = "strategy_selector"
    /\ Len(state.diagnostic_questions) = 5
    /\ state.estimated_level = 0
    /\ state.current_proficiency = 0

\* the edges of build_teaching_graph; diagnostic_phase runs its loop inside
\* the node, and the conditional edge is taken after meta_reasoner
GraphOrder ==
    {<<"diagnostic_phase", "diagnostic_loop">>,
     <<"diagnostic_loop", "diagnostic_loop">>,
     <<"diagnostic_phase", "strategy_selector">>,
     <<"diagnostic_loop", "strategy_selector">>,
     <<"strategy_selector", "teach">>,
     <<"teach", "practice">>,
     <<"practice", "evaluate">>,
     <<"evaluate", "meta_reasoner">>,
     <<"meta_reasoner", "route_decision">>,
     <<"route_decision", "strategy_selector">>,
     <<"route_decision", "END">>}

\* C27: node ordering.  diagnostic_phase executes once and first; thereafter
\* strategy_selector, teach, practice, evaluate, meta_reasoner execute in this
\* repeating order, one at a time, and meta_reasoner is left only for
\* strategy_selector or the terminal state.  A node that raises aborts the
\* run where it stands.
C27_NodeOrdering ==
    [][/\ <<pc, pc'>> \in GraphOrder \/ pc' = "crashed"
       /\ pc' \in {"diagnostic_phase", "diagnostic_loop"}
              => pc \in {"diagnostic_phase", "diagnostic_loop"}
       /\ pc \notin {"END", "crashed"}]_vars

\* C27 witness: a second cycle has reached meta_reasoner in order
C27_Witness ==
    /\ pc = "meta_reasoner"
    /\ Cycles(state.decision_log) = 2
    /\ Len(state.decision_log) >= 4
    /\ SubSeq(state.decision_log, Len(state.decision_log) - 3, Len(state.decision_log))
           = <<"strategy_selector", "teach", "practice", "evaluate">>

\* qualities on and around every threshold of the rule table
RuleQualities == {0, 199, 200, 399, 400, 599, 600, 601, 799, 800, 1000}

\* expected levels on and around the gap of 0.2 from the current estimate
RuleLevels(current) ==
    {current - 201, current - 200, current - 1, current, current + 1,
     current + 200, current + 201, 0, 1000}

\* the rule table, every entry worked out to its final value: rows are the
\* quality bands, columns the gap expected - current (> 0.2, < -0.2, between)
RuleTable(quality, expected, current) ==
    LET diff == expected - current
        much_harder == diff > 200
        much_easier == diff < -200
    IN  IF quality >= 800
        THEN (IF much_harder THEN 225 ELSE IF much_easier THEN 75 ELSE 150)
        ELSE IF quality > 600
        THEN (IF much_harder THEN 120 ELSE IF much_easier THEN 40 ELSE 80)
        ELSE IF quality = 600
        THEN (IF much_harder \/ much_easier THEN 40 ELSE 80)
        ELSE IF quality >= 400
        THEN (IF much_harder THEN -25 ELSE IF much_easier THEN 10
              ELSE IF expected > current THEN -50 ELSE 20)
        ELSE IF quality >= 200
        THEN (IF much_harder THEN -50 ELSE IF much_easier THEN -150 ELSE -100)
        ELSE (IF much_harder THEN -100 ELSE IF much_easier THEN -250 ELSE -200)

\* C28: calculate_level_adjustment equals the rule table for every input:
\* base +0.15 / +0.08 / (-0.05 or +0.02) / -0.10 / -0.20 by quality band,
\* scaled by 1.5 or 0.5 when the question is more than 0.2 harder or easier
\* than the estimate, and clamped to [-0.25, 0.25].
C28_LevelAdjustmentTable ==
    \A c \in {state.estimated_level, 0, 500, 1000} :
        \A q \in RuleQualities \cup WideQualities, e \in RuleLevels(c) :
            calculate_level_adjustment(q, e, c) = RuleTable(q, e, c)

\* C28 witness: an average answer (0.5) on a much harder question (0.9 against
\* 0.2) moved the estimate by -0.025
C28_Witness ==
    /\ Len(state.diagnostic_questions) = 1
    /\ state.estimated_level = 175

----------------------------------------------------------------------------
(* agents/evaluate_node.py: _calculate_proficiency_gain on its own *)

\* scores in steps of 0.1, on and next to the thresholds 0.4, 0.6 and 0.7,
\* and outside [0,1]
ReferenceScores ==
    {100 * k : k \in 0..10}
        \cup {390, 410, 590, 610, 690, 710} \cup {-3000, -1000, 3000}

ReferenceLevels == {0, 300, 500, 1000}

\* difficulties on and next to a gap of 0.2 from the level
ReferenceDifficulties(current_level) ==
    {current_level - 210, current_level - 200, current_level,
     current_level + 200, current_level + 210, 0, 1000}

CalculateProficiencyGain ==
    /\ pc = "_calculate_proficiency_gain"
    /\ state' = [state EXCEPT !.gain =
                    _calculate_proficiency_gain(state.score, state.current_level,
                                                state.difficulty)]
    /\ pc' = "gain_returned"
    /\ UNCHANGED <<tracker, last_practice>>

GainInit ==
    /\ \E score \in ReferenceScores, current_level \in ReferenceLevels :
       \E difficulty \in ReferenceDifficulties(current_level) :
           state = [score |-> score, current_level |-> current_level,
                    difficulty |-> difficulty, gain |-> 0]
    /\ pc = "_calculate_proficiency_gain"
    /\ tracker = <<>>
    /\ last_practice = NoPractice

GainNext == CalculateProficiencyGain

GainSpec == GainInit /\ [][GainNext]_vars

\* the factor, in hundredths, that the reference rule applies to score * 0.1
ReferenceFactor(score, current_level, difficulty) ==
    IF difficulty - current_level > 200 /\ score >= 700 THEN 130
    ELSE IF difficulty - current_level > 200 /\ score < 400 THEN 70
    ELSE IF difficulty - current_level < -200 /\ score < 600 THEN 80
    ELSE 100

\* C29: _calculate_proficiency_gain equals the reference rule for every input:
\* base = score * 0.1, times 1.3 (score >= 0.7) or 0.7 (score < 0.4) when the
\* difficulty is more than 0.2 above the level, times 0.8 (score < 0.6) when
\* it is more than 0.2 below, clamped to [-0.15, 0.15].
C29_ProficiencyGainRule ==
    pc = "gain_returned" =>
        LET exact == (state.score * ReferenceFactor(state.score, state.current_level,
                                                    state.difficulty)) \div 1000
        IN  state.gain = IF exact < -150 THEN -150
                         ELSE IF exact > 150 THEN 150 ELSE exact

\* C29 witness: a score of 0.7 on a question 0.21 above the level earned the
\* bonus, 0.091
C29_Witness ==
    /\ pc = "gain_returned"
    /\ state.score = 700
    /\ state.current_level = 300
    /\ state.difficulty = 510
    /\ state.gain = 91

----------------------------------------------------------------------------
(* adaptive_diagnostic_node called step after step, with no driver's guard *)

\* the most calls of the node in one run
MaxDiagnosticCalls == 7

SingleDiagnosticStep ==
    /\ pc = "adaptive_diagnostic_node"
    /\ Len(state.decision_log) < MaxDiagnosticCalls
    /\ DiagnosticStep("adaptive_diagnostic_node", DiagQuestionResponses, GradeResponses)

\* the fresh state, and states a caller hands over with a confidence already set
SingleStepInit ==
    /\ \E confidence \in {0, 400, 700, 800, 1000} :
           state = [create_mock_state("binary search") EXCEPT
                       !.diagnostic_confidence = confidence]
    /\ pc = "adaptive_diagnostic_node"
    /\ tracker = <<>>
    /\ last_practice = NoPractice

SingleStepNext == SingleDiagnosticStep

SingleStepSpec == SingleStepInit /\ [][SingleStepNext]_vars

\* C30: single diagnostic step frame.  If diagnostic_confidence >= 0.8 the
\* step only appends one entry to decision_log; else if 5 or more questions
\* have been asked it only sets diagnostic_confidence to 0.8 and appends one
\* log entry; in both cases the result does not depend on any LLM response and
\* diagnostic_questions, diagnostic_answers and estimated_level are unchanged.
C30_DiagnosticStepFrame ==
    [][pc = "adaptive_diagnostic_node" =>
          LET entry == state'.decision_log[Len(state'.decision_log)]
              same_for_all_responses ==
                  \A qresp \in DiagQuestionResponses, gresp \in GradeResponses :
                      Merge(state, adaptive_diagnostic_node(state, qresp, "answer", gresp))
                          = state'
          IN  /\ state.diagnostic_confidence >= 800
                  => /\ Len(state'.decision_log) = Len(state.decision_log) + 1
                     /\ state' = [state EXCEPT !.decision_log = Append(@, entry)]
                     /\ same_for_all_responses
              /\ (state.diagnostic_confidence < 800
                     /\ Len(state.diagnostic_questions) >= 5)
                  => /\ Len(state'.decision_log) = Len(state.decision_log) + 1
                     /\ state' = [state EXCEPT !.diagnostic_confidence = 800,
                                               !.decision_log = Append(@, entry)]
                     /\ same_for_all_responses
              /\ tracker' = tracker]_vars

\* C30 witness: after five questions the sixth call forced the confidence to
\* 0.8 and the seventh only logged the completion
C30_Witness ==
    /\ Len(state.diagnostic_questions) = 5
    /\ state.diagnostic_confidence = 800
    /\ Len(state.decision_log) = 7
    /\ state.decision_log[6] = "diagnostic_forced"
    /\ state.decision_log[7] = "diagnostic_done"

----------------------------------------------------------------------------
(* Claims C31..C39 *)

\* the estimates a question step can produce from an estimate: the rule table
\* of the adjustment applied to every response the step may receive, clamped
AskedLevels(estimated_level) ==
    {Max(0, Min(1000, estimated_level
                        + RuleTable(evaluate_answer_quality(gresp),
                                    DiagnosticQuestionOf(qresp, estimated_level).expected_level,
                                    estimated_level))) :
        qresp \in DiagQuestionResponses, gresp \in GradeResponses}

\* C31: a diagnostic step that asks a question appends exactly one question
\* and exactly one answer, so diagnostic_questions and diagnostic_answers
\* always have equal length; it sets estimated_level to
\* clamp(old + adjustment, 0, 1) and diagnostic_confidence to
\* min(1, old + 0.1); confidence never decreases and never exceeds 1.
C31_DiagnosticAsk ==
    /\ [](/\ Len(state.diagnostic_answers) = Len(state.diagnostic_questions)
          /\ state.diagnostic_confidence <= 1000)
    /\ [][/\ state'.diagnostic_confidence >= state.diagnostic_confidence
          /\ state'.diagnostic_questions # state.diagnostic_questions
                => /\ Len(state'.diagnostic_questions)
                          = Len(state.diagnostic_questions) + 1
                   /\ SubSeq(state'.diagnostic_questions, 1,
                             Len(state.diagnostic_questions))
                          = state.diagnostic_questions
                   /\ state'.diagnostic_answers
                          = Append(state.diagnostic_answers, "answer")
                   /\ state'.estimated_level \in AskedLevels(state.estimated_level)
                   /\ state'.diagnostic_confidence
                          = Min(1000, state.diagnostic_confidence + 100)]_vars

\* C31 witness: from confidence 0.7 one question was asked and answered well
\* on a much harder question: confidence 0.8, estimate 0.2 + 0.225
C31_Witness ==
    /\ state.diagnostic_questions = <<"llm_question">>
    /\ state.diagnostic_answers = <<"answer">>
    /\ state.diagnostic_confidence = 800
    /\ state.estimated_level = 425

----------------------------------------------------------------------------
(* diagnostic_phase_node with its working copy kept apart from the session
   state it returns updates for, and the diagnostic loop of main, which
   updates the session state in place *)

\* working_state = dict(state): here the variable state is the pair of the
\* session state and the working copy
PhaseStates ==
    {[create_mock_state("binary search") EXCEPT
          !.diagnostic_confidence = confidence, !.estimated_level = level] :
        confidence \in {0, 400, 800}, level \in {200, 600}}

PhaseInit ==
    /\ \E s0 \in PhaseStates : state = [session |-> s0, working_state |-> s0]
    /\ pc \in {"diagnostic_phase_node", "main"}
    /\ tracker = <<>>
    /\ last_practice = NoPractice

\* the test for an already complete diagnostic and its early return
PhaseEnter ==
    /\ pc = "diagnostic_phase_node"
    /\ IF state.working_state.diagnostic_confidence >= MIN_DIAGNOSTIC_CONFIDENCE
       THEN /\ state' = [state EXCEPT !.session =
                            Merge(@, diagnostic_phase_early_return(state.working_state))]
            /\ pc' = "phase_returned"
       ELSE /\ state' = state
            /\ pc' = "phase_loop"
    /\ UNCHANGED <<tracker, last_practice>>

\* one iteration of the while loop: working_state.update(updates)
PhaseLoop ==
    /\ pc = "phase_loop"
    /\ DiagnosticLoopGuard(state.working_state)
    /\ \E qresp \in DiagQuestionResponses, gresp \in GradeResponses :
           state' = [state EXCEPT !.working_state =
                        Merge(@, adaptive_diagnostic_node(state.working_state,
                                                          qresp, "answer", gresp))]
    /\ pc' = "phase_loop"
    /\ UNCHANGED <<tracker, last_practice>>

\* the return after the loop, merged into the session state by the graph
PhaseReturn ==
    /\ pc = "phase_loop"
    /\ ~DiagnosticLoopGuard(state.working_state)
    /\ state' = [state EXCEPT !.session =
                    Merge(@, diagnostic_phase_return(state.working_state))]
    /\ pc' = "phase_returned"
    /\ UNCHANGED <<tracker, last_practice>>

\* one iteration of the loop of main: its one dict is session and working copy
PhaseMain ==
    /\ pc = "main"
    /\ \E qresp \in DiagQuestionResponses, gresp \in GradeResponses :
           LET st1 == Merge(state.session,
                            adaptive_diagnostic_node(state.session, qresp, "answer", gresp))
               diagnostic_complete ==
                   \/ st1.diagnostic_confidence >= MIN_DIAGNOSTIC_CONFIDENCE
                   \/ Len(st1.diagnostic_questions) >= MAX_DIAGNOSTIC_QUESTIONS
               st2 == IF diagnostic_complete
                      THEN [st1 EXCEPT !.current_proficiency = st1.estimated_level]
                      ELSE st1
           IN  /\ state' = [session |-> st2, working_state |-> st2]
               /\ pc' = IF diagnostic_complete THEN "main_teaching" ELSE "main"
    /\ UNCHANGED <<tracker, last_practice>>

PhaseNext ==
    \/ PhaseEnter
    \/ PhaseLoop
    \/ PhaseReturn
    \/ PhaseMain

PhaseSpec == PhaseInit /\ [][PhaseNext]_vars

\* C32: when the diagnostic phase completes, current_proficiency equals the
\* final estimated_level produced by the diagnostic steps, and that same
\* estimated_level, diagnostic_confidence, questions and answers are what the
\* phase has written back to the session state.
C32_PhaseWritesBack ==
    pc \in {"phase_returned", "main_teaching"} =>
        /\ state.session.current_proficiency = state.working_state.estimated_level
        /\ state.session.estimated_level = state.working_state.estimated_level
        /\ state.session.diagnostic_confidence
               = state.working_state.diagnostic_confidence
        /\ state.session.diagnostic_questions
               = state.working_state.diagnostic_questions
        /\ state.session.diagnostic_answers = state.working_state.diagnostic_answers

\* C32 witness: diagnostic_phase_node has returned after five questions that
\* moved the estimate from 0.2 to 0.65, and the session state holds all of it
C32_Witness ==
    /\ pc = "phase_returned"
    /\ Len(state.session.diagnostic_questions) = 5
    /\ Len(state.session.diagnostic_answers) = 5
    /\ state.session.diagnostic_confidence = 500
    /\ state.session.estimated_level = 650
    /\ state.session.current_proficiency = 650

----------------------------------------------------------------------------
(* meta_reasoner_node called on the states its scenario tests build: the
   set-up state with progress, targets, counters and sessions written in *)

\* a session list as the scenarios write it
ScenarioSessions(n) ==
    [i \in 1..n |-> [session_id |-> i, strategy |-> "direct_explanation",
                     score |-> 200, question |-> "q", user_answer |-> "",
                     node |-> "evaluate"]]

MetaInit ==
    /\ \E current \in {250, 850}, target \in {-500, 0, 800},
          attempt \in {0, 4, 10}, failures \in {0, 3}, n \in {0, 2} :
           state = [create_mock_state("binary search") EXCEPT
                       !.current_proficiency = current,
                       !.target_proficiency = target,
                       !.current_attempt = attempt,
                       !.consecutive_failures = failures,
                       !.stuck_counter = failures,
                       !.sessions = ScenarioSessions(n)]
    /\ pc = "meta_reasoner_node"
    /\ tracker = <<>>
    /\ last_practice = NoPractice

MetaCall == pc = "meta_reasoner_node" /\ MetaReasonerStep("meta_returned")

MetaNext == MetaCall

MetaSpec == MetaInit /\ [][MetaNext]_vars

\* C33: the meta-reasoner is advisory only.  meta_reasoner_node changes
\* nothing but next_action, goal_achieved, needs_prerequisite,
\* prerequisite_topic and decision_log (one appended entry); current_attempt,
\* current_proficiency, sessions, strategy state and failure counters are
\* unchanged, and the returned next_action is always one of continue,
\* end_success, end_max_attempts, end_stuck, prerequisite.
C33_MetaAdvisoryOnly ==
    [][pc = "meta_reasoner_node" =>
          /\ DOMAIN state' = DOMAIN state
          /\ \A f \in DOMAIN state \ DecisionFields : state'[f] = state[f]
          /\ tracker' = tracker
          /\ pc' = "meta_returned" =>
                /\ state'.next_action \in
                       {"continue", "end_success", "end_max_attempts",
                        "end_stuck", "prerequisite"}
                /\ Len(state'.decision_log) = Len(state.decision_log) + 1
                /\ SubSeq(state'.decision_log, 1, Len(state.decision_log))
                       = state.decision_log]_vars

\* C33 witness: the node advised end_stuck on a state with three failures in
\* a row at attempt 4, and counters, attempt, proficiency and sessions stand
C33_Witness ==
    /\ pc = "meta_returned"
    /\ state.next_action = "end_stuck"
    /\ state.consecutive_failures = 3
    /\ state.stuck_counter = 3
    /\ state.current_attempt = 4
    /\ state.current_proficiency = 250
    /\ Len(state.sessions) = 2
    /\ state.decision_log = <<"meta_reasoner">>

\* C34: meta_reasoner_node handles a non-positive target: when
\* target_proficiency <= 0 it still completes and returns a decision, with no
\* division error.
C34_NonPositiveTarget ==
    state.target_proficiency <= 0 => pc # "crashed"

----------------------------------------------------------------------------
(* agents/strategies.py: StrategyEffectivenessTracker with its statistics.
   A quotient a / b is kept exact, as the pair <<a, b>>. *)

\* the most record_session calls in one run
MaxRecords == 6

\* a tracker as __init__ leaves it
StrategyEffectivenessTracker ==
    [session_history |-> <<>>, strategy_stats |-> [n \in {} |-> 0]]

\* the statistics a strategy starts with at its first session
NewStrategyStats ==
    [total_sessions |-> 0, total_score |-> 0, avg_score |-> <<0, 1>>,
     best_score |-> 0, worst_score |-> 1000, success_rate |-> <<0, 1>>,
     recent_trend |-> <<>>,
     topic_performance |-> [n \in {} |-> 0],
     level_performance |-> [n \in {} |-> 0]]

\* dict[key] = value
DictPut(dict, key, value) ==
    [k \in DOMAIN dict \cup {key} |-> IF k = key THEN value ELSE dict[k]]

RECURSIVE SumSeq(_)
SumSeq(scores) ==
    IF scores = <<>> THEN 0 ELSE Head(scores) + SumSeq(Tail(scores))

_get_level_bucket(level) ==
    IF level < 200 THEN "beginner"
    ELSE IF level < 500 THEN "intermediate"
    ELSE IF level < 800 THEN "advanced"
    ELSE "expert"

\* a trend window that refuses the new score once it holds five
recent_trend_keeping_oldest(recent_trend, score) ==
    IF Len(recent_trend) >= 5 THEN recent_trend ELSE Append(recent_trend, score)

\* recent_trend.append(score), and pop(0) beyond five entries
recent_trend_append(recent_trend, score) ==
    LET appended == Append(recent_trend, score)
    IN  IF Len(appended) > 5 THEN Tail(appended) ELSE appended

\* the scores and their average kept per topic and per level bucket
performance_append(performance, key, score) ==
    LET scores == Append(IF key \in DOMAIN performance
                         THEN performance[key].scores ELSE <<>>, score)
    IN  DictPut(performance, key,
                [scores |-> scores, avg |-> <<SumSeq(scores), Len(scores)>>])

\* StrategyEffectivenessTracker.record_session, whole
StrategyEffectivenessTracker_record_session(self, strategy_name, score, topic, user_level) ==
    LET session_history ==
            Append(self.session_history,
                   [strategy |-> strategy_name, score |-> score, topic |-> topic,
                    user_level |-> user_level])
        stats == IF strategy_name \in DOMAIN self.strategy_stats
                 THEN self.strategy_stats[strategy_name]
                 ELSE NewStrategyStats
        total_sessions == stats.total_sessions + 1
        total_score == stats.total_score + score
        successful_sessions ==
            Cardinality({i \in 1..Len(session_history) :
                            /\ session_history[i].strategy = strategy_name
                            /\ session_history[i].score >= 700})
    IN  [session_history |-> session_history,
         strategy_stats |->
             DictPut(self.strategy_stats, strategy_name,
                     [total_sessions |-> total_sessions,
                      total_score |-> total_score,
                      avg_score |-> <<total_score, total_sessions>>,
                      best_score |-> Max(stats.best_score, score),
                      worst_score |-> Min(stats.worst_score, score),
                      success_rate |-> <<successful_sessions, total_sessions>>,
                      recent_trend |-> recent_trend_append(stats.recent_trend, score),
                      topic_performance |->
                          performance_append(stats.topic_performance, topic, score),
                      level_performance |->
                          performance_append(stats.level_performance,
                                             _get_level_bucket(user_level), score)])]

\* the sessions recorded: two strategies, scores below, just below and on the
\* success mark of 0.7
TrackedNames == {"direct_explanation", "socratic"}
TrackedScores == {300, 699, 700}

\* here the variable state is the tracker
RecordSession ==
    /\ pc = "record_session"
    /\ Len(state.session_history) < MaxRecords
    /\ \E strategy_name \in TrackedNames, score \in TrackedScores :
           state' = StrategyEffectivenessTracker_record_session(
                        state, strategy_name, score, "binary search", 300)
    /\ UNCHANGED <<pc, tracker, last_practice>>

TrackerInit ==
    /\ state = StrategyEffectivenessTracker
    /\ pc = "record_session"
    /\ tracker = <<>>
    /\ last_practice = NoPractice

TrackerNext == RecordSession

TrackerSpec == TrackerInit /\ [][TrackerNext]_vars

\* the scores of a strategy's history entries, in arrival order
RECURSIVE ScoresOf(_, _)
ScoresOf(history, name) ==
    IF history = <<>> THEN <<>>
    ELSE LET rest == ScoresOf(SubSeq(history, 1, Len(history) - 1), name)
             last == history[Len(history)]
         IN  IF last.strategy = name THEN Append(rest, last.score) ELSE rest

\* C35: effectiveness tracker invariants after any sequence of record_session
\* calls on a fresh tracker.  session_history grows by exactly one entry per
\* call; for each strategy, total_sessions equals the number of its history
\* entries, avg_score = total_score / total_sessions, recent_trend holds the
\* last min(5, total_sessions) scores in arrival order, and success_rate is
\* the fraction of its history entries with score >= 0.7.
C35_TrackerInvariants ==
    /\ [](\A name \in TrackedNames :
            LET scores == ScoresOf(state.session_history, name)
                n == Len(scores)
                kept == Min(5, n)
            IN  IF n = 0 THEN name \notin DOMAIN state.strategy_stats
                ELSE /\ name \in DOMAIN state.strategy_stats
                     /\ LET stats == state.strategy_stats[name]
                        IN  /\ stats.total_sessions = n
                            /\ stats.total_score = SumSeq(scores)
                            /\ stats.avg_score[1] * stats.total_sessions
                                   = stats.total_score * stats.avg_score[2]
                            /\ stats.avg_score[2] # 0
                            /\ stats.recent_trend = SubSeq(scores, n - kept + 1, n)
                            /\ stats.success_rate[1] * n
                                   = Cardinality({i \in 1..n : scores[i] >= 700})
                                         * stats.success_rate[2]
                            /\ stats.success_rate[2] # 0)
    /\ [][/\ Len(state'.session_history) = Len(state.session_history) + 1
          /\ SubSeq(state'.session_history, 1, Len(state.session_history))
                 = state.session_history]_vars

\* C35 witness: six sessions of one strategy; the first score has left the
\* window, three of the six scores are successes
C35_Witness ==
    /\ Len(state.session_history) = 6
    /\ DOMAIN state.strategy_stats = {"socratic"}
    /\ state.strategy_stats["socratic"].total_sessions = 6
    /\ state.strategy_stats["socratic"].recent_trend = <<699, 700, 700, 300, 700>>
    /\ state.strategy_stats["socratic"].success_rate = <<3, 6>>
    /\ state.strategy_stats["socratic"].avg_score = <<3399, 6>>

----------------------------------------------------------------------------
(* agents/strategies.py: rank_strategies on its own *)

\* the longest strategy list ranked
MaxCatalog == 4

RankEffectiveness == {300, 500, 800}

\* strategy lists: a prefix of the catalog names, any effectiveness each
RankCatalogs ==
    UNION {{[i \in 1..n |-> [name |-> StrategyNames[i], effectiveness |-> e[i]]] :
               e \in [1..n -> RankEffectiveness]} :
              n \in 0..MaxCatalog}

\* the recent-session arguments the callers pass: none, or a strong session
\* of the last strategy of the catalog
RankRecentSessions ==
    {<<>>, <<[session_id |-> 1, strategy |-> "visual", score |-> 1000]>>}

\* here the variable state is the call: its arguments and its result
RankStrategies ==
    /\ pc = "rank_strategies"
    /\ state' = [state EXCEPT !.ranked =
                    rank_strategies(state.strategies, state.recent_sessions)]
    /\ pc' = "ranked"
    /\ UNCHANGED <<tracker, last_practice>>

RankInit ==
    /\ \E strategies \in RankCatalogs, recent_sessions \in RankRecentSessions :
           state = [strategies |-> strategies, recent_sessions |-> recent_sessions,
                    ranked |-> <<>>]
    /\ pc = "rank_strategies"
    /\ tracker = <<>>
    /\ last_practice = NoPractice

RankNext == RankStrategies

RankSpec == RankInit /\ [][RankNext]_vars

----------------------------------------------------------------------------
(* The teaching cycle of core/graph.py with every llm.invoke written down.
   Here the variable state is the pair of the session state and the calls the
   current cycle has made, each call named by its node and its prompt. *)

\* the most teaching cycles in one run
MaxCycles == 1

\* strategy_selector_node: no call on the reset branch, else one call in a try
strategy_selector_llm_calls(st) ==
    IF get_viable_strategies(st.available_strategies, st.strategy_attempts,
                             STRATEGY_MAX_ATTEMPTS) = <<>>
    THEN <<>>
    ELSE << <<"strategy_selector", "STRATEGY_SELECTION_PROMPT">> >>

\* teach_node: one call, before the parse and the extraction
teach_llm_calls(st) == << <<"teach", "STRATEGY_PROMPTS">> >>

\* practice_node: the teaching summary first (it may raise), then the call
\* for the question and, after the learner's answer, the call inside
\* evaluate_answer_quality
practice_llm_calls(st) ==
    IF PracticeRaises(st) THEN <<>>
    ELSE << <<"practice", "PRACTICE_QUESTION_PROMPT">>,
            <<"practice", "ANSWER_EVALUATION_PROMPT">> >>

\* evaluate_node: returns before its call when there is no question
evaluate_llm_calls(st) ==
    IF st.current_question = "" THEN <<>>
    ELSE << <<"evaluate", "EVALUATION_PROMPT">> >>

\* meta_reasoner_node: one call, after the progress line is printed
meta_reasoner_llm_calls(st) ==
    IF MetaReasonerRaises(st) THEN <<>>
    ELSE << <<"meta_reasoner", "META_REASONER_PROMPT">> >>

\* the session state the diagnostic phase hands over: n questions asked with
\* the LLM failing throughout, then the return of diagnostic_phase_node
RECURSIVE AfterQuestions(_, _)
AfterQuestions(st, n) ==
    IF n = 0 THEN st
    ELSE AfterQuestions(
             Merge(st, adaptive_diagnostic_node(
                           st, [ok |-> FALSE, expected_level |-> 0], "answer",
                           [ok |-> FALSE, quality_score |-> 0])),
             n - 1)

DiagnosedState ==
    LET s0 == create_mock_state("binary search")
    IN  Merge(s0, diagnostic_phase_return(AfterQuestions(s0, MAX_DIAGNOSTIC_QUESTIONS)))

CycleCrash ==
    /\ pc' = "crashed"
    /\ UNCHANGED <<tracker, last_practice>>

CycleSelector ==
    /\ pc = "strategy_selector"
    /\ state.cycle < MaxCycles
    /\ \E resp \in SelectorResponses :
           state' = [session |-> Merge(state.session,
                                       strategy_selector_node(state.session, resp)),
                     llm_calls |-> strategy_selector_llm_calls(state.session),
                     cycle |-> state.cycle + 1]
    /\ pc' = "teach"
    /\ UNCHANGED <<tracker, last_practice>>

CycleTeach ==
    /\ pc = "teach"
    /\ \E resp \in TeachResponses :
           IF TeachRaises(state.session, resp)
           THEN /\ state' = [state EXCEPT !.llm_calls =
                                @ \o teach_llm_calls(state.session)]
                /\ CycleCrash
           ELSE /\ state' = [state EXCEPT
                                !.session = Merge(@, teach_node(state.session, resp)),
                                !.llm_calls = @ \o teach_llm_calls(state.session)]
                /\ pc' = "practice"
                /\ UNCHANGED <<tracker, last_practice>>

CyclePractice ==
    /\ pc = "practice"
    /\ \E qresp \in PracticeResponses, user_answer \in Answers,
          gresp \in PracticeGradeResponses :
           IF PracticeRaises(state.session)
           THEN /\ state' = state
                /\ CycleCrash
           ELSE /\ state' = [state EXCEPT
                                !.session = Merge(@, practice_node(state.session, qresp,
                                                                   user_answer, gresp)),
                                !.llm_calls = @ \o practice_llm_calls(state.session)]
                /\ tracker' = record_session(tracker, state.session.current_strategy,
                                             evaluate_answer_quality(gresp),
                                             state.session.current_proficiency)
                /\ last_practice' = [question |-> PracticeDataOf(qresp).question,
                                     difficulty |-> PracticeDataOf(qresp).difficulty,
                                     answer |-> user_answer,
                                     asked |-> TRUE]
                /\ pc' = "evaluate"

CycleEvaluate ==
    /\ pc = "evaluate"
    /\ \E resp \in EvaluateResponses :
           IF EvaluateRaises(state.session)
           THEN /\ state' = [state EXCEPT !.llm_calls =
                                @ \o evaluate_llm_calls(state.session)]
                /\ CycleCrash
           ELSE /\ state' = [state EXCEPT
                                !.session = Merge(@, evaluate_node(state.session, resp)),
                                !.llm_calls = @ \o evaluate_llm_calls(state.session)]
                /\ tracker' = IF state.session.current_question = "" THEN tracker
                              ELSE record_session(tracker,
                                                  state.session.current_strategy,
                                                  EvaluationScoreOf(resp),
                                                  state.session.current_proficiency)
                /\ pc' = "meta_reasoner"
                /\ UNCHANGED last_practice

CycleMetaReasoner ==
    /\ pc = "meta_reasoner"
    /\ \E resp \in MetaResponses :
           IF MetaReasonerRaises(state.session)
           THEN /\ state' = state
                /\ CycleCrash
           ELSE /\ state' = [state EXCEPT
                                !.session = Merge(@, meta_reasoner_node(state.session, resp)),
                                !.llm_calls = @ \o meta_reasoner_llm_calls(state.session)]
                /\ pc' = "route_decision"
                /\ UNCHANGED <<tracker, last_practice>>

CycleRoute ==
    /\ pc = "route_decision"
    /\ pc' = IF route_decision(state.session) = "strategy_selector"
             THEN "strategy_selector" ELSE "END"
    /\ UNCHANGED <<state, tracker, last_practice>>

CycleInit ==
    /\ \E m \in 1..MaxAttemptsBound :
           state = [session |-> [DiagnosedState EXCEPT !.max_attempts = m],
                    llm_calls |-> <<>>, cycle |-> 0]
    /\ pc = "strategy_selector"
    /\ tracker = <<>>
    /\ last_practice = NoPractice

CycleNext ==
    \/ CycleSelector
    \/ CycleTeach
    \/ CyclePractice
    \/ CycleEvaluate
    \/ CycleMetaReasoner
    \/ CycleRoute

CycleSpec == CycleInit /\ [][CycleNext]_vars

\* the number of calls a node has made in the current cycle
CallsBy(node) ==
    Cardinality({i \in 1..Len(state.llm_calls) : state.llm_calls[i][1] = node})

\* C37: no retries.  Each node invocation attempts each external LLM call
\* exactly once, a failed call or an unparseable response is recovered only by
\* fallback data and never by invoking the LLM again, so a completed teaching
\* cycle has issued one LLM call per node (selector, teach, practice,
\* evaluate, meta_reasoner).
C37_OneCallPerNode ==
    pc = "route_decision" =>
        /\ \A i, j \in 1..Len(state.llm_calls) :
               i # j => state.llm_calls[i] # state.llm_calls[j]
        /\ \A node \in {"strategy_selector", "teach", "practice", "evaluate",
                        "meta_reasoner"} : CallsBy(node) = 1

----------------------------------------------------------------------------
\* C38: in every state reachable from the factory state by any sequence of
\* practice, evaluate and simulated teaching-session nodes,
\* consecutive_failures = stuck_counter, and both are non-negative.
C38_CountersAgree ==
    /\ state.consecutive_failures = state.stuck_counter
    /\ state.consecutive_failures >= 0
    /\ state.stuck_counter >= 0

\* C38 witness: a failed practice session and a failed simulated session were
\* followed by a failed evaluation: three sessions, both counters at 3
C38_Witness ==
    /\ Len(state.sessions) = 3
    /\ state.sessions[1].node = "practice"
    /\ state.sessions[2].node = "teaching_session"
    /\ state.sessions[3].node = "evaluate"
    /\ state.sessions[3].score < 600
    /\ state.consecutive_failures = 3
    /\ state.stuck_counter = 3

----------------------------------------------------------------------------
\* the session state evaluate_node meets for a level and a difficulty, with a
\* practice question pending
GradedSession(current_level, difficulty) ==
    [create_mock_state("binary search") EXCEPT
        !.current_strategy = "direct_explanation",
        !.current_explanation = "explanation",
        !.current_question = "llm_question",
        !.current_proficiency = current_level,
        !.current_question_difficulty = difficulty]

====
